---- MODULE Spec2Model ----
(***************************************************************************)
(* The connection driver of the label print server                         *)
(* (server/src/physical_printer.rs, server/src/job.rs, server/src/main.rs) *)
(* as a state machine: one driver task running PhysicalPrinter::drive, the *)
(* push_job request handlers that submit tasks, the reload handler that    *)
(* drops the Driver, and the device whose connections succeed or fail.     *)
(*                                                                         *)
(* Time is discrete.  A tokio interval is modelled by the time left until  *)
(* its next tick (0: the tick is due): all four intervals of drive use     *)
(* MissedTickBehavior::Delay, so a tick taken at time t schedules the next *)
(* one at t + period, and reset() does the same.  A branch of the driver   *)
(* that is ready runs before the next unit of time passes (Urgent); tasks, *)
(* request handlers and the device take any time.  A task in the JoinSet   *)
(* finishes in the step that joins it.  PrinterStatus::updated_at, a wall  *)
(* clock reading stored next to is_up, is left out.                        *)
(*                                                                         *)
(* Spec is this model of the driver.  TaskSpec keeps the driver and goes    *)
(* through the tasks of the JoinSet await by await against a device that   *)
(* answers, stays silent or is unreachable (device/mod.rs).  LiveSpec adds *)
(* fairness to the driver for what it eventually does.  ApiSpec runs the   *)
(* push_job handler with its validation beside the driver.                 *)
(*                                                                         *)
(* The zpl library under the server has a specification for each of its    *)
(* parts: StatusSpec for ZplPrinter::request_device_status, ReadSpec for   *)
(* read::line_with, DecodeSpec for split_line and FromField, CommandSpec   *)
(* for the response line counts and the encoding of command sequences,     *)
(* ImageSpec for util::image::bit_encode and the SerializedImage built     *)
(* around it.                                                              *)
(* Their initial states draw the inputs from bounded sets.  Texts and byte *)
(* strings are sequences of one-character strings.                         *)
(***************************************************************************)
EXTENDS Integers, Sequences, FiniteSets, TLC

\* ------------------------------------------------------------------ bounds
\* The configured durations, in model time units.
RetryFail == 2
StatusReportInterval == 1
IdleTimeout == 2
DisinterestProbeInterval == 3
\* push_job handlers that run concurrently.
MaxClients == 2
\* Jobs accepted into the queue over a run.
MaxJobs == 9
\* Connections the device accepts over a run.
MaxConnections == 2
\* Interest tokens held by tasks other than push_job at one time.
MaxKeepers == 1

\* connect_timeout and the wait_time of a simulated job, in time units.
ConnectTimeout == 2
WaitTime == 2
\* Jobs submitted over a run of the tasks' specification.
TaskJobs == 2
\* The dpmm override of a ZplOnly configuration that has one, and the dpmm
\* a device reports in its identification.
ConfiguredDpmm == 12
DeviceDpmm == 24

\* Driver::new: the capacity of the job channel.
BOUND == 8
\* simulation_label: the dpmm used when none is configured or discovered.
FallbackDpmm == 8

\* Option::None for a connection, a job or a gap.
None == 0


VARIABLES
    virtualization,       \* target.config.virtualization of this printer
    pc,                   \* where the driver task stands in drive()
    label_being_printed,  \* the JoinSet of drive(): the tasks in flight
    active,               \* Option<ActiveConnection> of drive()
    message,              \* the mpsc channel Driver -> Connector: queued jobs
    end,                  \* the oneshot `end` has fired (Driver shut down)
    available,            \* the watch value of Interest: the interest counter
    waiter_woken,         \* wait_for_strong_interest has a poll pending
    holding,              \* push_job handlers between interest() and send_job
    kept,                 \* tokens other tasks got from PhysicalPrinter::interest
    last_reply,           \* what the last send_job returned
    accepted,             \* jobs accepted so far (the id of the last one)
    is_up,                \* PrinterStatus::is_up
    connections,          \* connections the device accepted so far
    interval_reconnect,   \* time left to the next tick of each interval
    interval_keepalive,
    interval_disconnect,
    interval_probe,
    since_attempt,        \* time since the last connection attempt started
    device,               \* the printer at the other end of the socket
    last_verify,          \* how the last ActiveConnection::verify ended
    dpmm,                 \* the dpmm override of the configuration, if any
    request               \* the payload a push_job handler is verifying

\* The zpl library under the server: its functions are modelled one by one,
\* each in a specification of its own.
VARIABLES
    response,             \* split_line: the bytes of a response line
    line_nr,              \* split_line: which of the five lines it is
    filled,               \* split_line: the field slots after the call
    stream,               \* line_with: all bytes the peer writes to the socket
    rx,                   \* line_with: the bytes of them not read yet
    buf,                  \* line_with: the buffer the calls share
    reading,              \* line_with: a call is in its read loop
    returned,             \* line_with: what the calls returned so far
    commands,             \* CommandSequence: the commands of a sequence
    response_lines,       \* CommandSequence: its expected_response_lines
    encoded,              \* CommandSequence: its encoding as a String
    status,               \* ZplPrinter::status
    query,                \* request_device_status: the locals of a call
    tx,                   \* the queries written to the socket, in order
    arriving,             \* the response lines written by the printer, unread
    answered,             \* how many of the queries the printer has answered
    peer,                 \* the printer's end of the socket: open or closed
    calls,                \* calls of request_device_status so far
    io_result,            \* how the last call of request_device_status ended
    image,                \* bit_encode: the GrayImage it is called with
    bits,                 \* bit_encode: what a direct call ended with
    serialized            \* SerializedImage::from_base64 of the image

decoder == <<response, line_nr, filled>>

reader == <<stream, rx, buf, reading, returned>>

encoder == <<commands, response_lines, encoded>>

querier ==
    <<status, query, tx, arriving, answered, peer, calls, io_result>>

imager == <<image, bits, serialized>>

library == <<decoder, reader, encoder, querier, imager>>

vars == <<virtualization, pc, label_being_printed, active, message, end,
          available, waiter_woken, holding, kept, last_reply, accepted, is_up,
          connections, interval_reconnect, interval_keepalive,
          interval_disconnect, interval_probe, since_attempt, device,
          last_verify, dpmm, request, library>>

\* Everything but the library.
server == <<virtualization, pc, label_being_printed, active, message, end,
            available, waiter_woken, holding, kept, last_reply, accepted,
            is_up, connections, interval_reconnect, interval_keepalive,
            interval_disconnect, interval_probe, since_attempt, device,
            last_verify, dpmm, request>>

timers == <<interval_reconnect, interval_keepalive, interval_disconnect,
            interval_probe>>

\* What the model of the driver leaves as it is; the other specifications
\* change it.
detail == <<device, last_verify, dpmm, request, library>>

Policies == {"Physical", "DropJobs", "ZplOnly"}

\* An Option that holds a record: the empty sequence, or the record alone.
Nothing == <<>>

Some(x) == <<x>>

\* No function of the library has been called.
DecoderIdle ==
    /\ response = <<>>
    /\ line_nr = 0
    /\ filled = Nothing

ReaderIdle ==
    /\ stream = <<>>
    /\ rx = <<>>
    /\ buf = <<>>
    /\ reading = FALSE
    /\ returned = <<>>

EncoderIdle ==
    /\ commands = <<>>
    /\ response_lines = Nothing
    /\ encoded = Nothing

QuerierIdle ==
    /\ status = Nothing
    /\ query = Nothing
    /\ tx = <<>>
    /\ arriving = <<>>
    /\ answered = 0
    /\ peer = "open"
    /\ calls = 0
    /\ io_result = "none"

ImagerIdle ==
    /\ image = [width |-> 0, height |-> 0, data |-> <<>>]
    /\ bits = Nothing
    /\ serialized = Nothing

LibraryIdle ==
    DecoderIdle /\ ReaderIdle /\ EncoderIdle /\ QuerierIdle /\ ImagerIdle

\* ----------------------------------------------------------- configuration
\* is_connnected with the Physical arm left out of the matches!.
is_connnected_drop_jobs_only(v) == v = "DropJobs"

\* LabelVirtualization::is_connnected
is_connnected(v) == v \in {"Physical", "DropJobs"}

\* ---------------------------------------------------------------- interest
\* An uphold that forgets the increment.
uphold_forgotten(n) == n

\* Interest::uphold: send_modify(|n| *n += 1)
uphold(n) == n + 1

\* A KeepInterest that is released twice.
drop_keep_interest_twice(n) == n - 2

\* A KeepInterest whose drop does not give the count back.
drop_keep_interest_leaked(n) == n

\* Drop for KeepInterest: send_modify(|n| *n -= 1)
drop_keep_interest(n) == n - 1

\* An idle branch that never sees interest.
has_strong_interest_never(n) == FALSE

\* Interest::has_strong_interest
has_strong_interest(n) == n > 0

\* A counter changed without notifying the watch's receivers.
send_modify_silent(at, woken) == woken

\* send_modify notifies the receiver that wait_for_strong_interest subscribed:
\* the waiter is polled again.  There is a receiver only during the wait.
send_modify_wakes(at, woken) == IF at = "keep_open" THEN TRUE ELSE woken

\* A wait that ends on any change of the counter (changed() for wait_for).
wait_for_any_change(n) == TRUE

\* The closure of wait_for: |n| *n > 0
wait_for_ready(n) == n > 0

\* ------------------------------------------------------------------- timers
\* Interval::tick returning: the next tick is one period later.
tick(period) == period

\* Interval::reset_immediately: the next tick is due at once.
reset_immediately(period) == 0

\* Interval::reset: the next tick is one period after now.
reset(period) == period

Elapse(t) == IF t > 0 THEN t - 1 ELSE 0

\* ------------------------------------------------------------------- driver
\* A connect block entered whether or not there is a connection.
needs_connect_while_active(jobs, con, v) == jobs = {} /\ is_connnected(v)

\* The condition opening the loop body of drive: nothing in flight, no
\* connection, and a policy that connects.
needs_connect(jobs, con, v) == jobs = {} /\ con = None /\ is_connnected(v)

\* Where the driver waits next, from the head of the loop.
LoopHead(jobs, con, v) ==
    IF needs_connect(jobs, con, v) THEN "reconnect" ELSE "select"

\* set_up_status marking the printer up on every iteration.
set_up_status_always(up, con) == TRUE

\* PhysicalPrinter::set_up_status: is_up.fetch_or(connection.is_some())
set_up_status(up, con) == up \/ (con # None)

\* The recv branch without its `if !is_connection_busy` precondition.
recv_enabled_while_busy(jobs) == TRUE

\* `if !is_connection_busy` on the recv branch of the select
recv_enabled(jobs) == jobs = {}

\* usize::MAX, the start value of remaining_labels in wait_for_printed; it
\* is only ever compared with 0, so the largest integer at hand stands for
\* it.
usize_MAX == 2147483647

\* A spawned future before its first poll: where it stands (at), the time
\* since it was spawned, the locals of wait_for_printed and the dpmm of the
\* identification it renders with.
Unpolled(first) ==
    [at |-> first, elapsed |-> 0, remaining_labels |-> usize_MAX,
     waiting_in_peeloff |-> TRUE, dpmm |-> None]

\* The task spawned by the connect block of drive.
ConnectTask(keep_open) ==
    [kind |-> "connect", keep_open |-> keep_open, con |-> None, job |-> None,
     run |-> Unpolled("dial")]

\* The task spawned by create_job: print_label with the connection for the
\* Physical policy (the expect on the connection is checked by the caller),
\* simulation_label with the optional connection for the other two.
JobTask(v, con, job) ==
    [kind |-> IF v = "Physical" THEN "print" ELSE "simulation",
     keep_open |-> FALSE, con |-> con, job |-> job,
     run |-> Unpolled("render")]

\* A connect task that decides on the interest it finds when it is done.
task_ready_by_interest_now(t, id) ==
    IF t.kind = "connect"
    THEN (IF has_strong_interest(available) THEN id ELSE None)
    ELSE t.con

\* What a finished task hands to the driver as Ok(ready).  A connect task
\* returns the connection it opened (number id) only if keep_open was set
\* when it was spawned; print_label and simulation_label return the
\* connection they were given.
task_ready(t, id) ==
    IF t.kind = "connect"
    THEN (IF t.keep_open THEN id ELSE None)
    ELSE t.con

\* A join that takes the connection of the task whatever its result.
join_ready_on_error(t, ok, id, con) == task_ready(t, id)

\* The active connection after join_next: Ok(Ok(ready)) assigns ready, an
\* error of the task or of the join is only logged.
join_ready(t, ok, id, con) == IF ok THEN task_ready(t, id) ELSE con

\* send_job on a channel without a capacity.
try_send_unbounded(queue, job, closed) ==
    IF ~closed
    THEN [queue |-> Append(queue, job), reply |-> "ok"]
    ELSE [queue |-> queue, reply |-> "failed to queue"]

\* send_job on a channel that delivers a message twice.
try_send_twice(queue, job, closed) ==
    IF ~closed /\ Len(queue) < BOUND
    THEN [queue |-> queue \o <<job, job>>, reply |-> "ok"]
    ELSE [queue |-> queue, reply |-> "failed to queue"]

\* send_job on a channel that hands out the newest message first.
try_send_in_front(queue, job, closed) ==
    IF ~closed /\ Len(queue) < BOUND
    THEN [queue |-> <<job>> \o queue, reply |-> "ok"]
    ELSE [queue |-> queue, reply |-> "failed to queue"]

\* Driver::send_job: mpsc::Sender::try_send on a channel of capacity BOUND;
\* any error becomes "failed to queue".
try_send(queue, job, closed) ==
    IF ~closed /\ Len(queue) < BOUND
    THEN [queue |-> Append(queue, job), reply |-> "ok"]
    ELSE [queue |-> queue, reply |-> "failed to queue"]

\* The tokens of k dropped tasks are released one by one.
RECURSIVE drop_tokens(_, _)
drop_tokens(n, k) ==
    IF k = 0 THEN n ELSE drop_tokens(drop_keep_interest(n), k - 1)

\* The driver task is gone: drive returned or unwound.
Gone == pc \in {"exited", "panicked"}

\* The device as the driver's model sees it: it answers, has nothing to
\* print and no label waiting to be taken.
IdleDevice == [mode |-> "answering", labels |-> 0, waiting |-> FALSE]

\* The state of the driver and its clients after Driver::new and the spawn
\* of drive.
InitDriver ==
    /\ virtualization \in Policies
    /\ pc = LoopHead({}, None, virtualization)
    /\ label_being_printed = {}
    /\ active = None
    /\ message = <<>>
    /\ end = FALSE
    /\ available = 0
    /\ waiter_woken = FALSE
    /\ holding = 0
    /\ kept = 0
    /\ last_reply = "none"
    /\ accepted = 0
    /\ is_up = FALSE
    /\ connections = 0
    /\ interval_reconnect = 0
    /\ interval_keepalive = 0
    /\ interval_disconnect = 0
    /\ interval_probe = 0
    /\ since_attempt = -1

Init ==
    /\ InitDriver
    /\ device = IdleDevice
    /\ last_verify = "none"
    /\ dpmm = None
    /\ request = Nothing
    /\ LibraryIdle

\* The server has just started, with a printer of the Physical policy.
ServerIdle ==
    /\ InitDriver
    /\ virtualization = "Physical"
    /\ device = IdleDevice
    /\ last_verify = "none"
    /\ dpmm = None
    /\ request = Nothing

\* ------------------------------------------------------------ the handlers
\* push_job, first half: the job passed verify_label and the handler takes
\* an interest token for it.  The handler holds the read lock on the server
\* state, so the Driver is alive.
ObtainInterest ==
    /\ ~end
    /\ holding < MaxClients
    /\ accepted + holding < MaxJobs
    /\ available' = uphold(available)
    /\ waiter_woken' = send_modify_wakes(pc, waiter_woken)
    /\ holding' = holding + 1
    /\ UNCHANGED <<kept, virtualization, pc, label_being_printed,
                   active, message, end, last_reply, accepted, is_up,
                   connections, timers, since_attempt>>

PushJobInterest == ObtainInterest /\ UNCHANGED detail

\* push_job, second half: Driver::send_job.  On Ok the token travels with the
\* task in the queue; on Err the task comes back in the error and is dropped
\* with its token.
PushJobSend ==
    /\ holding > 0
    /\ LET r == try_send(message, accepted + 1, Gone) IN
        /\ message' = r.queue
        /\ last_reply' = r.reply
        /\ IF r.reply = "ok"
           THEN /\ accepted' = accepted + 1
                /\ UNCHANGED <<available, waiter_woken>>
           ELSE /\ available' = drop_keep_interest(available)
                /\ waiter_woken' = send_modify_wakes(pc, waiter_woken)
                /\ UNCHANGED accepted
    /\ holding' = holding - 1
    /\ UNCHANGED <<detail, kept, virtualization, pc, label_being_printed,
                   active, end, is_up, connections, timers, since_attempt>>

\* Another task registers interest with PhysicalPrinter::interest ...
Interest ==
    /\ kept < MaxKeepers
    /\ kept' = kept + 1
    /\ available' = uphold(available)
    /\ waiter_woken' = send_modify_wakes(pc, waiter_woken)
    /\ UNCHANGED <<detail, virtualization, pc, label_being_printed, active,
                   message, end, holding, last_reply, accepted, is_up,
                   connections, timers, since_attempt>>

\* ... and later drops the KeepInterest it got.
DropInterest ==
    /\ kept > 0
    /\ kept' = kept - 1
    /\ available' = drop_keep_interest(available)
    /\ waiter_woken' = send_modify_wakes(pc, waiter_woken)
    /\ UNCHANGED <<detail, virtualization, pc, label_being_printed, active,
                   message, end, holding, last_reply, accepted, is_up,
                   connections, timers, since_attempt>>

\* reload: under the write lock (no push_job is running) the printer map is
\* cleared; Drop for Driver calls shutdown, which fires `end`, and the
\* sender of the job channel goes with it.
Shutdown ==
    /\ ~end
    /\ holding = 0
    /\ end' = TRUE
    /\ UNCHANGED <<detail, kept, virtualization, pc, label_being_printed,
                   active, message, available, waiter_woken, holding,
                   last_reply, accepted, is_up, connections, timers,
                   since_attempt>>

\* --------------------------------------------------------------- the driver
\* interval_reconnect.tick().await returns; the driver enters the select on
\* wait_for_strong_interest and interval_probe, whose first poll is pending.
ReconnectTick ==
    /\ pc = "reconnect"
    /\ interval_reconnect = 0
    /\ interval_reconnect' = tick(RetryFail)
    /\ pc' = "keep_open"
    /\ waiter_woken' = TRUE
    /\ UNCHANGED <<detail, kept, virtualization, label_being_printed, active,
                   message, end, available, holding, last_reply, accepted,
                   is_up, connections, interval_keepalive,
                   interval_disconnect, interval_probe, since_attempt>>

\* The wait_for_strong_interest branch is polled: with the counter above zero
\* the select ends with keep_open = true and the connect task is spawned;
\* otherwise the waiter parks until the next send_modify.
WaitForStrongInterest ==
    /\ pc = "keep_open"
    /\ waiter_woken
    /\ waiter_woken' = FALSE
    /\ IF wait_for_ready(available)
       THEN /\ label_being_printed' =
                   label_being_printed \cup {ConnectTask(TRUE)}
            /\ pc' = "select"
            /\ since_attempt' = 0
       ELSE UNCHANGED <<label_being_printed, pc, since_attempt>>
    /\ UNCHANGED <<detail, kept, virtualization, active, message, end,
                   available, holding, last_reply, accepted, is_up,
                   connections, timers>>

\* The interval_probe branch wins the select: keep_open = false.
ProbeTick ==
    /\ pc = "keep_open"
    /\ interval_probe = 0
    /\ interval_probe' = tick(DisinterestProbeInterval)
    /\ waiter_woken' = FALSE
    /\ label_being_printed' = label_being_printed \cup {ConnectTask(FALSE)}
    /\ pc' = "select"
    /\ since_attempt' = 0
    /\ UNCHANGED <<detail, kept, virtualization, active, message, end,
                   available, holding, last_reply, accepted, is_up,
                   connections, interval_reconnect, interval_keepalive,
                   interval_disconnect>>

\* The end of a loop iteration: set_up_status, then the head of the loop.
EndOfIteration ==
    /\ is_up' = set_up_status(is_up, active')
    /\ pc' = LoopHead(label_being_printed', active', virtualization)

\* How ActiveConnection::verify can end: the status came back in time, the
\* socket reported an error, or the 1000 ms timeout around
\* request_device_status elapsed.
VerifyOutcomes == {"ok", "io_error", "timeout"}

\* A verify whose timeout is not an error.
verify_timeout_ok(outcome) == outcome # "io_error"

\* The Result of verify: `try_active.await??` turns both the Elapsed of the
\* timeout and the io::Error into Err.
verify(outcome) == outcome = "ok"

\* Keepalive branch: ActiveConnection::verify succeeds or fails; on failure
\* the connection is dropped and the probe interval reset.
Keepalive(outcome) ==
    /\ pc = "select"
    /\ active # None
    /\ interval_keepalive = 0
    /\ interval_keepalive' = tick(StatusReportInterval)
    /\ IF verify(outcome)
       THEN UNCHANGED <<active, interval_probe>>
       ELSE /\ active' = None
            /\ interval_probe' = reset(DisinterestProbeInterval)
    /\ UNCHANGED <<kept, virtualization, label_being_printed, message, end,
                   available, waiter_woken, holding, last_reply, accepted,
                   connections, interval_reconnect, interval_disconnect,
                   since_attempt>>
    /\ EndOfIteration

\* In the model of the driver a verify ends in any of the three ways.
KeepaliveTick ==
    \E outcome \in VerifyOutcomes : Keepalive(outcome) /\ UNCHANGED detail

\* Idle branch: the connection is closed unless there is strong interest.
DisconnectTick ==
    /\ pc = "select"
    /\ active # None
    /\ interval_disconnect = 0
    /\ interval_disconnect' = tick(IdleTimeout)
    /\ IF ~has_strong_interest(available)
       THEN /\ active' = None
            /\ interval_probe' = reset(DisinterestProbeInterval)
       ELSE UNCHANGED <<active, interval_probe>>
    /\ UNCHANGED <<detail, kept, virtualization, label_being_printed, message,
                   end, available, waiter_woken, holding, last_reply,
                   accepted, connections, interval_reconnect,
                   interval_keepalive, since_attempt>>
    /\ EndOfIteration

\* join_next branch: a task in flight has finished.  Ok(Ok(ready)) replaces
\* the active connection (and resets keepalive and idle intervals if there
\* is one); an error of the task or of the join is only logged.  The device
\* accepts a connect only while it has connections left to give.
Join(t, ok) ==
    /\ pc = "select"
    /\ t \in label_being_printed
    /\ (t.kind = "connect" /\ ok) => connections < MaxConnections
    /\ label_being_printed' = label_being_printed \ {t}
    /\ connections' =
          IF t.kind = "connect" /\ ok THEN connections + 1 ELSE connections
    /\ LET ready == join_ready(t, ok, connections + 1, active) IN
          /\ active' = ready
          /\ IF ok /\ ready # None
             THEN /\ interval_keepalive' = reset(StatusReportInterval)
                  /\ interval_disconnect' = reset(IdleTimeout)
             ELSE UNCHANGED <<interval_keepalive, interval_disconnect>>
    /\ UNCHANGED <<kept, virtualization, message, end, available, waiter_woken,
                   holding, last_reply, accepted, interval_reconnect,
                   interval_probe, since_attempt>>
    /\ EndOfIteration

\* In the model of the driver a task in flight finishes in the step that
\* joins it, with either result.
JoinNext ==
    \E t \in label_being_printed, ok \in BOOLEAN :
       Join(t, ok) /\ UNCHANGED detail

\* drive returns or unwinds: its locals are dropped.  The JoinSet aborts its
\* tasks, the connection is closed, and the Connector drops the receiver with
\* the queued tasks, whose tokens are released.
Leave(to) ==
    /\ pc' = to
    /\ label_being_printed' = {}
    /\ active' = None
    /\ message' = <<>>
    /\ available' = drop_tokens(available, Len(message))
    /\ UNCHANGED <<detail, kept, virtualization, end, waiter_woken, holding,
                   last_reply, accepted, is_up, connections, timers,
                   since_attempt>>

\* An end branch that never becomes ready.
end_never_ready(fired) == FALSE

\* `end = &mut con.end`: the oneshot receiver is ready once the token was
\* sent or the sender dropped.
end_ready(fired) == fired

\* end branch: the shutdown token (or the sender's drop) arrived.
End ==
    /\ pc = "select"
    /\ end_ready(end)
    /\ Leave("exited")

\* recv branch, taken only while nothing is in flight.  None (every sender
\* dropped, queue empty) ends the loop.  A job is handed to create_job with
\* active.take(), then its token keep_up is dropped.  create_job panics for
\* the Physical policy when there is no connection.
Recv ==
    /\ pc = "select"
    /\ recv_enabled(label_being_printed)
    /\ message # <<>> \/ end
    /\ IF message = <<>>
       THEN Leave("exited")
       ELSE IF virtualization = "Physical" /\ active = None
       THEN Leave("panicked")
       ELSE /\ message' = Tail(message)
            /\ label_being_printed' = label_being_printed \cup
                   {JobTask(virtualization, active, Head(message))}
            /\ active' = None
            /\ available' = drop_keep_interest(available)
            /\ EndOfIteration
            /\ UNCHANGED <<detail, kept, virtualization, end, waiter_woken,
                           holding, last_reply, accepted, connections, timers,
                           since_attempt>>

\* ---------------------------------------------------------------------- time
\* The driver task has a branch that is ready now; it runs before time moves.
Urgent ==
    \/ pc = "reconnect" /\ interval_reconnect = 0
    \/ pc = "keep_open" /\ (waiter_woken \/ interval_probe = 0)
    \/ pc = "select" /\ active # None
          /\ (interval_keepalive = 0 \/ interval_disconnect = 0)
    \/ pc = "select" /\ end_ready(end)
    \/ pc = "select" /\ recv_enabled(label_being_printed) /\ message # <<>>

\* One unit of time passes for the intervals of the driver.
Elapses ==
    /\ ~Urgent
    /\ interval_reconnect' = Elapse(interval_reconnect)
    /\ interval_keepalive' = Elapse(interval_keepalive)
    /\ interval_disconnect' = Elapse(interval_disconnect)
    /\ interval_probe' = Elapse(interval_probe)
    /\ since_attempt' =
          IF since_attempt = -1 \/ since_attempt >= RetryFail
          THEN since_attempt ELSE since_attempt + 1
    /\ UNCHANGED <<kept, virtualization, pc, active, message, end, available,
                   waiter_woken, holding, last_reply, accepted, is_up,
                   connections>>

\* One unit of time passes.
Tick == Elapses /\ UNCHANGED <<label_being_printed, detail>>

Next ==
    \/ PushJobInterest
    \/ PushJobSend
    \/ Interest
    \/ DropInterest
    \/ Shutdown
    \/ ReconnectTick
    \/ WaitForStrongInterest
    \/ ProbeTick
    \/ KeepaliveTick
    \/ DisconnectTick
    \/ JoinNext
    \/ End
    \/ Recv
    \/ Tick

Spec == Init /\ [][Next]_vars

\* ================================================== the tasks and the device
\* A second specification keeps the driver as it is and follows the tasks
\* of the JoinSet poll by poll against a device: the device is unreachable,
\* accepts connections but stays silent, or answers; it counts the labels
\* it still has to print and raises a flag while a printed label waits to
\* be taken.  Few jobs are submitted, and no token is held from outside.
Modes == {"unreachable", "silent", "answering"}

\* Time since the spawn of a task is counted up to here.
Saturated == ConnectTimeout + WaitTime

\* The second line of the device's answer to the host status query, as far
\* as wait_for_printed looks at it: field 8 (the label waiting flag) as text
\* and field 9 (the labels remaining in the batch).
status_line(dev) ==
    [st_waiting_in_peeloff |-> IF dev.waiting THEN "1" ELSE "0",
     st_labels_in_batch |-> dev.labels]

\* str::parse::<usize> on the texts a flag field can hold.
parse_usize(text) == IF text = "1" THEN 1 ELSE 0

\* The handler wait_for_printed passes to send_with_response, on line 1 of
\* the answer: remaining_labels is parsed from st_waiting_in_peeloff (the
\* field st_labels_in_batch is bound and then only named in a warning), and
\* waiting_in_peeloff is whether that field reads "1".
wait_for_printed_line(run, line) ==
    [run EXCEPT
        !.remaining_labels = parse_usize(line.st_waiting_in_peeloff),
        !.waiting_in_peeloff = (line.st_waiting_in_peeloff = "1")]

\* The exit test of the loop of wait_for_printed.
printed(run) == ~run.waiting_in_peeloff /\ run.remaining_labels = 0

\* An identification that ignores the configured override.
identification_without_override(con, cfg) ==
    IF con # None THEN DeviceDpmm ELSE FallbackDpmm

\* simulation_label: the dpmm of the identification the label is rendered
\* with, taken from the connection if there is one, else from a default
\* identification with the configured dpmm or 8.
identification(con, cfg) ==
    IF con # None THEN DeviceDpmm
    ELSE IF cfg # None THEN cfg ELSE FallbackDpmm

\* A simulated job that does not await its sleep.
slept_at_once(run) == TRUE

\* target_time.await: the sleep created when the task started is over.
slept(run) == run.elapsed >= WaitTime

\* The timeout around ZplPrinter::with_address has elapsed.
dial_timed_out(run) == run.elapsed >= ConnectTimeout

\* The run of a task moved to another await point.
At(run, at) == [run EXCEPT !.at = at]

\* {x} if cond holds, else nothing.
only(cond, x) == IF cond THEN {x} ELSE {}

\* One poll of task t that gets somewhere: the runs it can move to, each
\* with the device it leaves behind.  room: the device has a connection
\* left to give.
\*   connect task: with_address under timeout(connection_timeout, ..), then
\*     request_device_status, which has no timeout of its own;
\*   print_label: label.print, printer.send, printer.wait_for_printed, none
\*     of them under a timeout;
\*   simulation_label: the identification, label.render, target_time.await.
\* Every read or write on the socket can end with an io::Error.
polled(t, dev, room) ==
    LET run == t.run
        to(at) == [run |-> At(run, at), device |-> dev]
        rendering == [run EXCEPT !.dpmm = identification(t.con, dpmm)]
    IN
    CASE run.at = "dial" ->
            only(dial_timed_out(run) \/ dev.mode = "unreachable" \/ ~room,
                 to("err"))
            \cup only(dev.mode # "unreachable" /\ room, to("status"))
      [] run.at = "status" ->
            {to("err")} \cup only(dev.mode = "answering", to("ok"))
      [] run.at = "render" ->
            {[run |-> At(rendering, "err"), device |-> dev],
             [run |-> At(rendering,
                         IF t.kind = "print" THEN "send" ELSE "sleep"),
              device |-> dev]}
      [] run.at = "send" ->
            {to("err")}
            \cup only(dev.mode # "unreachable",
                      [run |-> At(run, "wait"),
                       device |-> [dev EXCEPT !.labels = @ + 1]])
      [] run.at = "wait" ->
            {to("err")}
            \cup only(dev.mode = "answering",
                      LET seen == wait_for_printed_line(run, status_line(dev))
                      IN [run |-> IF printed(seen) THEN At(seen, "ok")
                                  ELSE seen,
                          device |-> dev])
      [] run.at = "sleep" -> only(slept(run), to("ok"))
      [] OTHER -> {}

\* A task of the JoinSet is polled and moves on.
Poll ==
    /\ \E t \in label_being_printed :
          \E n \in polled(t, device, connections < MaxConnections) :
             /\ label_being_printed' =
                   (label_being_printed \ {t}) \cup {[t EXCEPT !.run = n.run]}
             /\ device' = n.device
    /\ UNCHANGED <<kept, virtualization, pc, active, message, end, available,
                   waiter_woken, holding, last_reply, accepted, is_up,
                   connections, timers, since_attempt, last_verify, dpmm,
                   request, library>>

\* join_next yields the result of a task that has returned.
TaskJoin ==
    \E t \in label_being_printed :
       /\ t.run.at \in {"ok", "err"}
       /\ Join(t, t.run.at = "ok")
       /\ UNCHANGED detail

\* How verify can end against the device: a device that answers gives the
\* status in time; one that does not runs into the timeout; the socket can
\* report an error at any time.
verify_outcomes(mode) ==
    IF mode = "answering" THEN {"ok", "io_error"} ELSE {"timeout", "io_error"}

\* The keepalive branch against the device.
VerifyTick ==
    \E outcome \in verify_outcomes(device.mode) :
       /\ Keepalive(outcome)
       /\ last_verify' = outcome
       /\ UNCHANGED <<device, dpmm, request, library>>

\* A task has something to do now: its result is ready for join_next, the
\* timeout of the dial has elapsed or the sleep of a simulated job is over.
TaskUrgent ==
    \E t \in label_being_printed :
       \/ t.run.at \in {"ok", "err"}
       \/ t.run.at = "dial" /\ dial_timed_out(t.run)
       \/ t.run.at = "sleep" /\ slept(t.run)

\* A task one unit of time later.
aged(t) ==
    [t EXCEPT !.run.elapsed = IF @ < Saturated THEN @ + 1 ELSE @]

\* One unit of time passes for the driver and the tasks.
TaskTick ==
    /\ Elapses
    /\ ~TaskUrgent
    /\ label_being_printed' = {aged(t) : t \in label_being_printed}
    /\ UNCHANGED detail

\* The device becomes unreachable, silent or answering.
DeviceChanges ==
    /\ \E mode \in Modes \ {device.mode} :
          device' = [device EXCEPT !.mode = mode]
    /\ UNCHANGED <<kept, virtualization, pc, label_being_printed, active,
                   message, end, available, waiter_woken, holding, last_reply,
                   accepted, is_up, connections, timers, since_attempt,
                   last_verify, dpmm, request, library>>

\* The device finishes a label; in peel-off operation the label then waits
\* to be taken.
DevicePrints ==
    /\ device.labels > 0
    /\ ~device.waiting
    /\ \E waiting \in BOOLEAN :
          device' = [device EXCEPT !.labels = @ - 1, !.waiting = waiting]
    /\ UNCHANGED <<kept, virtualization, pc, label_being_printed, active,
                   message, end, available, waiter_woken, holding, last_reply,
                   accepted, is_up, connections, timers, since_attempt,
                   last_verify, dpmm, request, library>>

\* The waiting label is taken off the device.
LabelTaken ==
    /\ device.waiting
    /\ device' = [device EXCEPT !.waiting = FALSE]
    /\ UNCHANGED <<kept, virtualization, pc, label_being_printed, active,
                   message, end, available, waiter_woken, holding, last_reply,
                   accepted, is_up, connections, timers, since_attempt,
                   last_verify, dpmm, request, library>>

\* push_job, first half, for the few jobs of this specification.
Submit == accepted + holding < TaskJobs /\ PushJobInterest

\* The device is in any mode with nothing to print; only a ZplOnly
\* configuration has a dpmm field, which may be left out.
TaskInit ==
    /\ InitDriver
    /\ device \in [mode : Modes, labels : {0}, waiting : {FALSE}]
    /\ last_verify = "none"
    /\ dpmm \in IF virtualization = "ZplOnly"
                THEN {None, ConfiguredDpmm} ELSE {None}
    /\ request = Nothing
    /\ LibraryIdle

TaskNext ==
    \/ Submit
    \/ PushJobSend
    \/ ReconnectTick
    \/ WaitForStrongInterest
    \/ ProbeTick
    \/ VerifyTick
    \/ DisconnectTick
    \/ TaskJoin
    \/ Recv
    \/ Poll
    \/ TaskTick
    \/ DeviceChanges
    \/ DevicePrints
    \/ LabelTaken

TaskSpec == TaskInit /\ [][TaskNext]_vars

\* ------------------------------------------------------------------ fairness
\* A third specification for what the driver eventually does, with the few
\* jobs of Submit and no token held from outside.  The runtime polls the
\* driver task whenever one of its branches is ready and time goes on
\* (weak fairness); select! picks among its ready branches at random, so a
\* branch that is ready again and again is taken at last (strong fairness
\* of End).  Nothing is assumed of the tasks in the JoinSet, the request
\* handlers or the device: a task may never return.
DriverStep ==
    \/ ReconnectTick
    \/ WaitForStrongInterest
    \/ ProbeTick
    \/ KeepaliveTick
    \/ DisconnectTick
    \/ End
    \/ Recv

LiveNext ==
    \/ Submit
    \/ PushJobSend
    \/ Shutdown
    \/ ReconnectTick
    \/ WaitForStrongInterest
    \/ ProbeTick
    \/ KeepaliveTick
    \/ DisconnectTick
    \/ JoinNext
    \/ End
    \/ Recv
    \/ Tick

LiveSpec ==
    /\ Init
    /\ [][LiveNext]_vars
    /\ WF_vars(Tick)
    /\ WF_vars(DriverStep)
    /\ SF_vars(End)

\* ------------------------------------------------------- the push_job handler
\* Label dimensions are numbers of a unit small enough that every sample is a
\* whole number; the samples and their differences are below 2^24, where f32
\* arithmetic on whole numbers is exact.
ConfiguredWidth == 65536

abs(x) == IF x < 0 THEN -x ELSE x

max(a, b) == IF a >= b THEN a ELSE b

\* to_5digits_eq: eps = max(|lhs|, |rhs|) * 2^-16, equal iff |lhs - rhs| <= eps.
to_5digits_eq(lhs, rhs) == abs(lhs - rhs) * 65536 <= max(abs(lhs), abs(rhs))

DimensionFields ==
    {"width", "height", "margin_left", "margin_right", "margin_top",
     "margin_bottom"}

approx_cmp(self, other) ==
    \A f \in DimensionFields : to_5digits_eq(self[f], other[f])

\* The label of the configuration (target.label.dimensions).
ConfiguredDimensions ==
    [width |-> ConfiguredWidth, height |-> 2 * ConfiguredWidth,
     margin_left |-> 0, margin_right |-> 0, margin_top |-> 0,
     margin_bottom |-> 0]

\* What a client may send as dimensions: nothing, the configured label off by
\* one or by two units in the width, or with a margin the configuration has
\* not.
SampleDimensions ==
    {Nothing,
     Some([ConfiguredDimensions EXCEPT !.width = @ + 1]),
     Some([ConfiguredDimensions EXCEPT !.width = @ + 2]),
     Some([ConfiguredDimensions EXCEPT !.margin_bottom = 1])}

\* PrintApi: the optional dimensions and the content; decodable says whether
\* the content can be decoded, which typst code, never parsed here, always
\* can.
Payloads ==
    {payload \in [dimensions : SampleDimensions, kind : {"image", "typst"},
                  decodable : BOOLEAN] :
        payload.kind = "typst" => payload.decodable}

DimensionMismatch == "Dimension mismatch, check physical label configuration"

\* validate_as_job: svg and image content goes through its parser, typst code
\* is taken as it is.
validate_as_job_unchecked(payload) == "ok"

validate_as_job(payload) ==
    IF payload.kind = "typst" \/ payload.decodable THEN "ok" ELSE "decode error"

\* verify_label: the reply is "ok" or the reason of the rejection.
verify_label(payload) ==
    IF payload.dimensions # Nothing
       /\ ~approx_cmp(payload.dimensions[1], ConfiguredDimensions)
    THEN DimensionMismatch
    ELSE validate_as_job(payload)

\* push_job is called with a payload.
PushJobArrives ==
    /\ request = Nothing
    /\ ~end
    /\ accepted + holding < TaskJobs
    /\ \E payload \in Payloads : request' = Some(payload)
    /\ UNCHANGED <<library, device, last_verify, dpmm, kept, virtualization,
                   pc,
                   label_being_printed, active, message, end, available,
                   waiter_woken, holding, last_reply, accepted, is_up,
                   connections, timers, since_attempt>>

\* push_job up to interest(): a rejected payload returns the reason, an
\* accepted one goes on to take its token.
PushJobVerified ==
    /\ request # Nothing
    /\ request' = Nothing
    /\ UNCHANGED <<library, device, last_verify, dpmm>>
    /\ LET reply == verify_label(request[1]) IN
        IF reply = "ok"
        THEN ObtainInterest
        ELSE /\ last_reply' = reply
             /\ UNCHANGED <<kept, virtualization, pc, label_being_printed,
                            active, message, end, available, waiter_woken,
                            holding, accepted, is_up, connections, timers,
                            since_attempt>>

ApiNext ==
    \/ PushJobArrives
    \/ PushJobVerified
    \/ PushJobSend
    \/ Shutdown
    \/ ReconnectTick
    \/ WaitForStrongInterest
    \/ ProbeTick
    \/ KeepaliveTick
    \/ DisconnectTick
    \/ JoinNext
    \/ End
    \/ Recv
    \/ Tick

ApiSpec == Init /\ [][ApiNext]_vars

\* ---------------------------------------------------------- status decoding
\* A line is a sequence of bytes, a byte a string of its own; "0xFF" is a byte
\* no UTF-8 text holds.
DigitValue ==
    [c \in {"0", "1", "2", "3", "4", "5", "6", "7", "8", "9"} |->
       CASE c = "0" -> 0 [] c = "1" -> 1 [] c = "2" -> 2 [] c = "3" -> 3
         [] c = "4" -> 4 [] c = "5" -> 5 [] c = "6" -> 6 [] c = "7" -> 7
         [] c = "8" -> 8 [] c = "9" -> 9]

\* T::MAX of the integer types of the slots, digit by digit.
MAX(type) ==
    CASE type = "u8" -> <<"2", "5", "5">>
      [] type = "u32" -> <<"4", "2", "9", "4", "9", "6", "7", "2", "9", "5">>
      [] type = "u64" -> <<"1", "8", "4", "4", "6", "7", "4", "4", "0", "7",
                           "3", "7", "0", "9", "5", "5", "1", "6", "1", "5">>

\* A number as its digits without leading zeros.
canonical(digits) ==
    LET significant == {i \in 1..Len(digits) : digits[i] # "0"} IN
    IF significant = {} THEN <<"0">>
    ELSE SubSeq(digits,
                CHOOSE i \in significant : \A j \in significant : i <= j,
                Len(digits))

\* The number does not overflow the type.
in_range(number, most) ==
    \/ Len(number) < Len(most)
    \/ /\ Len(number) = Len(most)
       /\ ~\E i \in 1..Len(most) :
             /\ \A j \in 1..(i - 1) : number[j] = most[j]
             /\ DigitValue[number[i]] > DigitValue[most[i]]

\* str::parse of an unsigned integer type: an optional plus sign, then one
\* digit or more, and no overflow.
parse(st, type) ==
    LET digits == IF st # <<>> /\ st[1] = "+" THEN Tail(st) ELSE st IN
    IF \/ digits = <<>>
       \/ \E i \in 1..Len(digits) : digits[i] \notin DOMAIN DigitValue
    THEN Nothing
    ELSE IF in_range(canonical(digits), MAX(type))
         THEN Some(canonical(digits))
         ELSE Nothing

Default(type) ==
    CASE type = "bool" -> FALSE
      [] type \in {"String", "Ignore"} -> <<>>
      [] OTHER -> <<"0">>

\* FromField::fill of each slot type.
fill_any_number(type, self, st) ==
    CASE type = "Ignore" -> self
      [] type = "String" -> st
      [] type = "bool" ->
            IF parse(st, "u8") = Nothing THEN self
            ELSE parse(st, "u8") # Some(<<"0">>)
      [] OTHER -> IF parse(st, type) # Nothing THEN parse(st, type)[1] ELSE self

fill(type, self, st) ==
    CASE type = "Ignore" -> self
      [] type = "String" -> st
      [] type = "bool" ->
            IF parse(st, "u8") = Some(<<"0">>) THEN FALSE
            ELSE IF parse(st, "u8") = Some(<<"1">>) THEN TRUE
            ELSE self
      [] OTHER -> IF parse(st, type) # Nothing THEN parse(st, type)[1] ELSE self

from_utf8(line) == \A i \in 1..Len(line) : line[i] # "0xFF"

\* str::split(','): the pieces between the commas, one more than commas.
RECURSIVE split(_)
split(line) ==
    IF \A i \in 1..Len(line) : line[i] # "," THEN <<line>>
    ELSE LET comma == CHOOSE i \in 1..Len(line) :
                          /\ line[i] = ","
                          /\ \A j \in 1..(i - 1) : line[j] # ","
         IN <<SubSeq(line, 1, comma - 1)>>
              \o split(SubSeq(line, comma + 1, Len(line)))

\* split_line: data are the slots as they are, types their types.
split_line(line, data, types) ==
    IF ~from_utf8(line) THEN data
    ELSE [i \in 1..Len(data) |->
            IF i <= Len(split(line))
            THEN fill(types[i], data[i], split(line)[i])
            ELSE data[i]]

\* The slots request_device_status hands to split_line for lines[0] to
\* lines[4], by type.
Slots(nr) ==
    CASE nr = 0 -> <<"String", "String", "u32", "String">>
      [] nr = 1 -> <<"u32", "bool", "bool", "u32", "u32", "bool", "bool",
                     "bool", "Ignore", "bool", "bool", "bool">>
      [] nr = 2 -> <<"u8", "Ignore", "bool", "bool", "bool", "u32", "u8",
                     "bool", "u32", "bool", "u32">>
      [] nr = 3 -> <<"String", "bool">>
      [] nr = 4 -> <<"u32", "u64", "u64">>

\* HostStatus::default() of one line's fields.
default(nr) == [i \in 1..Len(Slots(nr)) |-> Default(Slots(nr)[i])]

\* What a field of a response may read.
MaxTokens == 3

SampleTokens ==
    {<<>>, <<"1">>, <<"+", "1">>, <<"0", "1">>, <<"-", "1">>, <<"0xFF">>,
     <<"2", "5", "5">>, <<"2", "5", "6">>,
     <<"4", "2", "9", "4", "9", "6", "7", "2", "9", "5">>,
     <<"4", "2", "9", "4", "9", "6", "7", "2", "9", "6">>,
     <<"1", "8", "4", "4", "6", "7", "4", "4", "0", "7",
       "3", "7", "0", "9", "5", "5", "1", "6", "1", "5">>,
     <<"1", "8", "4", "4", "6", "7", "4", "4", "0", "7",
       "3", "7", "0", "9", "5", "5", "1", "6", "1", "6">>}

\* The device writes the fields of a line with commas between them.
RECURSIVE joined(_)
joined(tokens) ==
    IF Len(tokens) = 1 THEN tokens[1]
    ELSE tokens[1] \o <<",">> \o joined(Tail(tokens))

SampleLines ==
    {joined(tokens) :
        tokens \in UNION {[1..n -> SampleTokens] : n \in 1..MaxTokens}}

DecodeInit ==
    /\ ServerIdle
    /\ ImagerIdle
    /\ ReaderIdle
    /\ EncoderIdle
    /\ QuerierIdle
    /\ response \in SampleLines
    /\ line_nr \in 0..4
    /\ filled = Nothing

\* request_device_status decodes one of its lines.
Decode ==
    /\ filled = Nothing
    /\ filled' = Some(split_line(response, default(line_nr), Slots(line_nr)))
    /\ UNCHANGED <<server, imager, reader, encoder, querier, response, line_nr>>

DecodeSpec == DecodeInit /\ [][Decode]_vars

\* ---------------------------------------------------------------- line_with
\* The bytes on the socket: start of text, end of text and others.
STX == "0x02"

ETX == "0x03"

Bytes == {STX, ETX, "a", "b"}

MaxStream == 5

\* The size of read_buf: the most one read returns.
ReadBuf == 128

\* Iterator::position: the place before the first such byte, if there is one.
position(bytes, byte) ==
    LET found == {i \in 1..Len(bytes) : bytes[i] = byte} IN
    IF found = {} THEN Nothing
    ELSE Some((CHOOSE i \in found : \A j \in found : i <= j) - 1)

\* The end of line_with: buf keeps what follows post_etx, the end byte is
\* popped from the line and the line is split behind its first start byte.
returns_whole_line(bytes, post_etx) ==
    [buf |-> SubSeq(bytes, post_etx + 1, Len(bytes)),
     line |-> [ok |-> TRUE, start |-> <<>>,
               string |-> SubSeq(bytes, 1, post_etx - 1)]]

returns(bytes, post_etx) ==
    LET line == SubSeq(bytes, 1, post_etx - 1)
        start == IF position(line, STX) = Nothing THEN 0
                 ELSE position(line, STX)[1] + 1
    IN [buf |-> SubSeq(bytes, post_etx + 1, Len(bytes)),
        line |-> [ok |-> TRUE, start |-> SubSeq(line, 1, start),
                  string |-> SubSeq(line, start + 1, Len(line))]]

\* Err(BrokenPipe) in the place of a line.
BrokenPipe == [ok |-> FALSE, start |-> <<>>, string |-> <<>>]

ReadInit ==
    /\ ServerIdle
    /\ ImagerIdle
    /\ DecoderIdle
    /\ EncoderIdle
    /\ QuerierIdle
    /\ stream \in UNION {[1..n -> Bytes] : n \in 0..MaxStream}
    /\ rx = stream
    /\ buf = <<>>
    /\ reading = FALSE
    /\ returned = <<>>

\* line_with is called, after the calls before it returned lines: a frame
\* that is whole in buf is returned without a read.
LineWith ==
    /\ ~reading
    /\ \A i \in 1..Len(returned) : returned[i].ok
    /\ IF position(buf, ETX) # Nothing
       THEN /\ buf' = returns(buf, position(buf, ETX)[1] + 1).buf
            /\ returned' =
                  Append(returned, returns(buf, position(buf, ETX)[1] + 1).line)
            /\ UNCHANGED reading
       ELSE /\ reading' = TRUE
            /\ UNCHANGED <<buf, returned>>
    /\ UNCHANGED <<server, imager, decoder, encoder, querier, stream, rx>>

\* rx.read returns n bytes.
read_resumes_at_chunk(old, n, chunk) == position(chunk, ETX)[1] + 1

post_fin(old, n, chunk) == position(chunk, ETX)[1] + 1 + Len(old)

Read ==
    /\ reading
    /\ \E n \in 1..ReadBuf :
        /\ n <= Len(rx)
        /\ rx' = SubSeq(rx, n + 1, Len(rx))
        /\ LET chunk == SubSeq(rx, 1, n) IN
            IF position(chunk, ETX) # Nothing
            THEN /\ buf' = returns(buf \o chunk, post_fin(buf, n, chunk)).buf
                 /\ returned' =
                       Append(returned, returns(buf \o chunk,
                                                post_fin(buf, n, chunk)).line)
                 /\ reading' = FALSE
            ELSE /\ buf' = buf \o chunk
                 /\ UNCHANGED <<reading, returned>>
    /\ UNCHANGED <<server, imager, decoder, encoder, querier, stream>>

\* rx.read returns 0: the peer closed the stream.
closed_returns_rest(bytes) == [ok |-> TRUE, start |-> <<>>, string |-> bytes]

closed_returns(bytes) == BrokenPipe

ReadClosed ==
    /\ reading
    /\ rx = <<>>
    /\ returned' = Append(returned, closed_returns(buf))
    /\ reading' = FALSE
    /\ UNCHANGED <<server, imager, decoder, encoder, querier, stream, rx, buf>>

ReadNext == LineWith \/ Read \/ ReadClosed

ReadSpec == ReadInit /\ [][ReadNext]_vars

\* ------------------------------------------------------------ the commands
\* A ZplCommand is its kind, the text of a Raw command and the number it
\* carries: the response_lines of Raw, the width, the length.  Texts are
\* sequences of characters.
MaxCommands == 3

MaxResponseLines == 2

Abc == <<"A", "b", "c">>

Command(kind, command, value) ==
    [kind |-> kind, command |-> command, value |-> value]

\* The kinds that carry nothing.
Plain ==
    {"StartLabel", "EndLabel", "PersistConfiguration",
     "RequestHostIdentification", "RequestHostRamStatus", "RequestHostStatus"}

ZplCommands ==
    {Command("Raw", Abc, n) : n \in 0..MaxResponseLines}
    \cup {Command(kind, <<>>, 0) : kind \in Plain}
    \cup {Command("SetPrintWidth", <<>>, w) : w \in {5, 684, 1200}}
    \cup {Command("SetLabelLength", <<>>, l) : l \in {38, 384, 12345}}

\* ZplCommand::expected_response_lines
expected_response_lines_of_queries(self) ==
    CASE self.kind \in {"RequestHostIdentification", "RequestHostRamStatus"}
            -> 1
      [] self.kind = "RequestHostStatus" -> 3
      [] OTHER -> 0

expected_response_lines(self) ==
    CASE self.kind = "RequestHostIdentification" -> 1
      [] self.kind = "RequestHostRamStatus" -> 1
      [] self.kind = "RequestHostStatus" -> 3
      [] self.kind = "Raw" -> self.value
      [] OTHER -> 0

RECURSIVE total_expected_response_lines(_)
total_expected_response_lines(list) ==
    IF list = <<>> THEN 0
    ELSE expected_response_lines(Head(list))
            + total_expected_response_lines(Tail(list))

\* Display of an unsigned number: its decimal digits.
RECURSIVE decimal(_)
decimal(n) ==
    LET digit == <<"0", "1", "2", "3", "4", "5", "6", "7", "8", "9">> IN
    IF n < 10 THEN <<digit[n + 1]>>
    ELSE decimal(n \div 10) \o <<digit[(n % 10) + 1]>>

\* format!("{:0>width}"): zeros on the left up to the width, nothing cut.
unpadded(shown, width) == shown

padded(shown, width) ==
    IF Len(shown) >= width THEN shown
    ELSE [i \in 1..(width - Len(shown)) |-> "0"] \o shown

\* From<ZplCommand> for String
String_from_ZplCommand(self) ==
    CASE self.kind = "Raw" -> self.command
      [] self.kind = "StartLabel" -> <<"^", "X", "A">>
      [] self.kind = "EndLabel" -> <<"^", "X", "Z">>
      [] self.kind = "PersistConfiguration" -> <<"^", "J", "U", "S">>
      [] self.kind = "SetPrintWidth" ->
            <<"^", "P", "W">> \o padded(decimal(self.value), 3)
      [] self.kind = "SetLabelLength" ->
            <<"^", "L", "L">> \o padded(decimal(self.value), 4)
      [] self.kind = "RequestHostIdentification" -> <<"~", "H", "I">>
      [] self.kind = "RequestHostRamStatus" -> <<"~", "H", "M">>
      [] self.kind = "RequestHostStatus" -> <<"~", "H", "S">>

\* From<CommandSequence> for String: the texts of the commands with "\n"
\* between them.
RECURSIVE String_from_CommandSequence(_)
String_from_CommandSequence(list) ==
    IF list = <<>> THEN <<>>
    ELSE IF Len(list) = 1 THEN String_from_ZplCommand(list[1])
    ELSE String_from_ZplCommand(Head(list)) \o <<"\n">>
            \o String_from_CommandSequence(Tail(list))

CommandInit ==
    /\ ServerIdle
    /\ ImagerIdle
    /\ DecoderIdle
    /\ ReaderIdle
    /\ QuerierIdle
    /\ commands \in UNION {[1..n -> ZplCommands] : n \in 0..MaxCommands}
    /\ response_lines = Nothing
    /\ encoded = Nothing

\* CommandSequence::expected_response_lines is called.
ExpectedResponseLines ==
    /\ response_lines = Nothing
    /\ response_lines' = Some(total_expected_response_lines(commands))
    /\ UNCHANGED <<server, imager, decoder, reader, querier, commands, encoded>>

\* String::from is called on the sequence.
Encode ==
    /\ encoded = Nothing
    /\ encoded' = Some(String_from_CommandSequence(commands))
    /\ UNCHANGED <<server, imager, decoder, reader, querier, commands,
                   response_lines>>

CommandNext == ExpectedResponseLines \/ Encode

CommandSpec == CommandInit /\ [][CommandNext]_vars

\* ---------------------------------------------------- request_device_status
MaxQueries == 2

\* The commands of request_device_status.
Discovery ==
    <<Command("RequestHostIdentification", <<>>, 0),
      Command("RequestHostStatus", <<>>, 0),
      Command("RequestHostRamStatus", <<>>, 0)>>

\* What the printer writes for a line: every field of it as 1, or the first
\* field alone.
Replies == {"full", "short"}

reply_line(nr, reply) ==
    IF reply = "full"
    THEN joined([i \in 1..Len(Slots(nr)) |-> <<"1">>])
    ELSE <<"1">>

\* The lines the printer answers a query with, by the text of the query.
reply_lines(query_text, reply) ==
    CASE query_text = <<"~", "H", "I">> -> <<reply_line(0, reply)>>
      [] query_text = <<"~", "H", "S">> ->
            <<reply_line(1, reply), reply_line(2, reply),
              reply_line(3, reply)>>
      [] query_text = <<"~", "H", "M">> -> <<reply_line(4, reply)>>
      [] OTHER -> <<>>

\* The response lines expected for the first k commands.
expected_through(k) == total_expected_response_lines(SubSeq(Discovery, 1, k))

\* try_join! of one command: its bytes are written and its lines are read.
try_join_on_write(q) == q.written

try_join(q) == q.written /\ Len(q.lines) = expected_through(q.cmd)

\* `let mut info = HostStatus::default()`: the five groups of fields.
HostStatus_previous(previous) ==
    IF previous = Nothing THEN [nr \in 1..5 |-> default(nr - 1)]
    ELSE previous[1]

HostStatus_default(previous) == [nr \in 1..5 |-> default(nr - 1)]

\* The split_line calls on lines[0] to lines[4].
info_of(lines, previous) ==
    [nr \in 1..5 |->
        split_line(lines[nr], HostStatus_default(previous)[nr],
                   Slots(nr - 1))]

\* The call goes on with the locals q after a write or a read: to the next
\* command when this one is done, and to the decoding after the last.
goes_on(q) ==
    IF ~try_join(q)
    THEN query' = Some(q) /\ UNCHANGED <<status, io_result>>
    ELSE IF q.cmd < Len(Discovery)
    THEN /\ query' = Some([q EXCEPT !.cmd = @ + 1, !.written = FALSE])
         /\ UNCHANGED <<status, io_result>>
    ELSE /\ query' = Nothing
         /\ status' = Some(info_of(q.lines, status))
         /\ io_result' = "ok"

\* The `?` on an io::Error.
fails ==
    /\ query' = Nothing
    /\ io_result' = "err"
    /\ UNCHANGED status

RequestDeviceStatus ==
    /\ query = Nothing
    /\ calls < MaxQueries
    /\ calls' = calls + 1
    /\ query' = Some([cmd |-> 1, written |-> FALSE, lines |-> <<>>])
    /\ UNCHANGED <<server, imager, decoder, reader, encoder, status, tx,
                   arriving, answered, peer, io_result>>

\* tx.write_all(&data): fails only on a socket the printer has closed.
WriteAll ==
    /\ query # Nothing
    /\ ~query[1].written
    /\ \E ok \in BOOLEAN :
        /\ peer = "open" => ok
        /\ IF ok
           THEN /\ tx' = Append(tx, String_from_CommandSequence(
                                       <<Discovery[query[1].cmd]>>))
                /\ goes_on([query[1] EXCEPT !.written = TRUE])
           ELSE fails /\ UNCHANGED tx
    /\ UNCHANGED <<server, imager, decoder, reader, encoder, arriving, answered,
                   peer, calls>>

\* read::line_with for the next expected line: the next line that arrived,
\* or the error once the printer has closed and nothing is left.
ReadLine ==
    /\ query # Nothing
    /\ Len(query[1].lines) < expected_through(query[1].cmd)
    /\ IF arriving # <<>>
       THEN /\ arriving' = Tail(arriving)
            /\ goes_on([query[1] EXCEPT !.lines = Append(@, Head(arriving))])
       ELSE /\ peer = "closed"
            /\ fails
            /\ UNCHANGED arriving
    /\ UNCHANGED <<server, imager, decoder, reader, encoder, tx, answered, peer,
                   calls>>

\* The printer answers the oldest query it has not answered.
PrinterAnswers ==
    /\ peer = "open"
    /\ answered < Len(tx)
    /\ answered' = answered + 1
    /\ \E reply \in Replies :
          arriving' = arriving \o reply_lines(tx[answered + 1], reply)
    /\ UNCHANGED <<server, imager, decoder, reader, encoder, status, query, tx,
                   peer, calls, io_result>>

PeerCloses ==
    /\ peer = "open"
    /\ peer' = "closed"
    /\ UNCHANGED <<server, imager, decoder, reader, encoder, status, query, tx,
                   arriving, answered, calls, io_result>>

StatusInit == ServerIdle /\ LibraryIdle

StatusNext ==
    \/ RequestDeviceStatus
    \/ WriteAll
    \/ ReadLine
    \/ PrinterAnswers
    \/ PeerCloses

StatusSpec == StatusInit /\ [][StatusNext]_vars

\* ---------------------------------------------------- util::image::bit_encode
MaxWidth == 9
MaxHeight == 2

\* image::GrayImage::from_fn(width, height, f): the pixels row by row, each a
\* luma of eight bits; f is a function of the column and the row.
GrayImage(width, height, f) ==
    [width |-> width, height |-> height,
     data |-> [i \in 1..(width * height) |->
                  f[(i - 1) % width, (i - 1) \div width] % 256]]

\* The functions the sample images are made from.
Pixels(luma(_, _)) == [x \in 0..MaxWidth, y \in 0..MaxHeight |-> luma(x, y)]

Lumas == {0, 64, 127, 128, 255}

\* The images bit_encode is called with: of one luma, of one luma per row, a
\* gradient along the diagonal and a checkerboard, in every size.
SampleImages ==
    UNION {{GrayImage(w, h, Pixels(LAMBDA x, y : l)) : l \in Lumas}
           \cup {GrayImage(w, h, Pixels(LAMBDA x, y : 128 \div 2 ^ y)),
                 GrayImage(w, h, Pixels(LAMBDA x, y : (x + y) * 31)),
                 GrayImage(w, h, Pixels(LAMBDA x, y : ((x + y) % 2) * 255))} :
           w \in 0..MaxWidth, h \in 0..MaxHeight}

\* Itertools::chunks(size) on an iterator over s: groups of size items, the
\* last one shorter.  It panics when size is 0, which its callers see to.
chunks(s, size) ==
    [i \in 1..((Len(s) + size - 1) \div size) |->
        SubSeq(s, (i - 1) * size + 1,
               IF i * size < Len(s) THEN i * size ELSE Len(s))]

\* Iterator::sum of bytes.
RECURSIVE sum_u8(_)
sum_u8(s) == IF s = <<>> THEN 0 ELSE (Head(s) + sum_u8(Tail(s))) % 256

RECURSIVE concat(_)
concat(list) == IF list = <<>> THEN <<>> ELSE Head(list) \o concat(Tail(list))

\* A group of up to eight pixels zipped with the shifts 7, 6, ..., 0: each
\* pixel gives u8::from(luma < 128) << b and the byte is their sum.
quad_to_byte(quad) ==
    sum_u8([i \in 1..Len(quad) |->
               (IF quad[i] < 128 THEN 1 ELSE 0) * 2 ^ (8 - i)])

\* bit_encode: pixels().chunks(width) are the rows, row.chunks(8) the groups
\* of a row; chunks(0) panics.
bit_encode(img) ==
    IF img.width = 0 THEN [panic |-> TRUE, bytes |-> <<>>]
    ELSE LET rows == chunks(img.data, img.width)
         IN  [panic |-> FALSE,
              bytes |-> concat([r \in DOMAIN rows |->
                          LET quads == chunks(rows[r], 8)
                          IN  [q \in DOMAIN quads |->
                                  quad_to_byte(quads[q])]])]

div_ceil(a, b) == (a + b - 1) \div b

\* SerializedImage::from_base64: the counts are computed from the size of the
\* image, then bit_encode packs the pixels.  packed is what STANDARD.encode
\* and crc::checksum are given to make the fields data and crc.
from_base64(img) ==
    LET bytes_per_row == div_ceil(img.width, 8)
        total_field_count == bytes_per_row * img.height
        encoded_bits == bit_encode(img)
    IN  [panic |-> encoded_bits.panic,
         byte_count |-> total_field_count,
         total_field_count |-> total_field_count,
         bytes_per_row |-> bytes_per_row,
         packed |-> encoded_bits.bytes]

ImageInit ==
    /\ ServerIdle
    /\ DecoderIdle
    /\ ReaderIdle
    /\ EncoderIdle
    /\ QuerierIdle
    /\ image \in SampleImages
    /\ bits = Nothing
    /\ serialized = Nothing

\* bit_encode is called on the image.
BitEncode ==
    /\ bits = Nothing
    /\ bits' = Some(bit_encode(image))
    /\ UNCHANGED <<server, decoder, reader, encoder, querier, image,
                   serialized>>

\* SerializedImage::from_base64 is called on the image.
FromBase64 ==
    /\ serialized = Nothing
    /\ serialized' = Some(from_base64(image))
    /\ UNCHANGED <<server, decoder, reader, encoder, querier, image, bits>>

ImageNext == BitEncode \/ FromBase64

ImageSpec == ImageInit /\ [][ImageNext]_vars

\* ------------------------------------------------------------------- claims
\* Steps of the driver the claims speak about.
\* The recv branch yields a job (the driver stays in its loop or panics in
\* create_job).
ReceivesJob ==
    /\ pc = "select"
    /\ message # <<>>
    /\ Len(message') < Len(message)
    /\ pc' # "exited"

\* The connect block spawns a connection attempt.
StartsConnect == pc = "keep_open" /\ pc' = "select"

\* Driver::send_job returns.
SendJobReturns == holding' = holding - 1

\* A connect task is joined after the device accepted the connection and
\* answered the status query.
ConnectSucceeds == connections' = connections + 1

\* The wait_for_strong_interest future is polled.
WaiterPolled == pc = "keep_open" /\ waiter_woken /\ ~waiter_woken'
                /\ interval_probe' = interval_probe

\* C1: the JoinSet of drive holds at most one task in every reachable state,
\* and a job is received from the queue only in a step that starts with the
\* JoinSet empty.
C1_OneTaskInFlight ==
    /\ [](Cardinality(label_being_printed) <= 1)
    /\ [][ReceivesJob => label_being_printed = {}]_vars

\* C1 witness: a job task is in flight while another job waits in the queue.
C1_Witness ==
    /\ \E t \in label_being_printed : t.kind # "connect"
    /\ message # <<>>

\* C2: with the Physical policy every receive of a job happens while the
\* driver holds an active connection, and create_job never panics.
C2_PhysicalHasConnection ==
    /\ [](pc # "panicked")
    /\ [][(ReceivesJob /\ virtualization = "Physical") => active # None]_vars

\* C2 witness: a print task runs on a connection that was opened, lost and
\* opened again.
C2_Witness ==
    /\ virtualization = "Physical"
    /\ \E t \in label_being_printed : t.kind = "print" /\ t.con = 2

\* C3: send_job is always able to return; with fewer than BOUND tasks queued
\* it appends the task and answers ok, with BOUND queued it answers the error
\* and leaves the queue as it is; the queue never holds more than BOUND.
C3_SendJobNeverWaits ==
    /\ [](Len(message) <= BOUND)
    /\ [](holding > 0 => ENABLED PushJobSend)
    /\ [][SendJobReturns =>
            IF Len(message) < BOUND
            THEN message' = Append(message, accepted') /\ last_reply' = "ok"
                 /\ accepted' = accepted + 1
            ELSE message' = message /\ last_reply' = "failed to queue"]_vars

\* C3 witness: a submission was rejected and the queue is still full.
C3_Witness == Len(message) = BOUND /\ last_reply = "failed to queue"

\* C4: a connection attempt starts either as the first one or at least
\* RetryFail after the start of the previous one.
C4_MinSpacing ==
    [][StartsConnect => since_attempt \in {-1, RetryFail}]_vars

\* C5: as long as the device has accepted no connection, is_up is false.
C5_DownWhileUnreachable == connections = 0 => ~is_up

\* C5 witness: an attempt has failed, a job is queued, and the driver is
\* about to retry.
C5_Witness ==
    /\ connections = 0
    /\ since_attempt # -1
    /\ pc = "reconnect"
    /\ message # <<>>

\* C6: when the driver holds no connection, has none in a task, and is back
\* in its connect block, is_up is false.
C6_StatusReflectsLoss ==
    (pc \in {"reconnect", "keep_open"} /\ active = None
       /\ label_being_printed = {}) => ~is_up

\* C7: the interest counter equals the number of tokens alive (held by
\* push_job handlers, by queued tasks and by other tasks), is never negative,
\* and has_strong_interest is true exactly when a token is alive.
C7_CounterIsTokensAlive ==
    /\ available = holding + Len(message) + kept
    /\ available >= 0
    /\ has_strong_interest(available) <=> (holding + Len(message) + kept > 0)

\* C7 witness: tokens of all three kinds are alive after a job's token was
\* dropped at dispatch.
C7_Witness ==
    /\ holding > 0 /\ kept > 0 /\ message # <<>>
    /\ \E t \in label_being_printed : t.kind # "connect"

\* C8: while the driver waits for strong interest with the counter above
\* zero, a poll of the waiter is pending; and a poll of the waiter that finds
\* the counter above zero ends the wait with keep_open = true.
C8_NoLostWakeup ==
    /\ []((pc = "keep_open" /\ available > 0) => waiter_woken)
    /\ [][(WaiterPolled /\ available > 0) =>
            (pc' = "select" /\ label_being_printed' = {ConnectTask(TRUE)})]_vars

\* C8 witness: the waiter parked (time has passed since the wait began) and a
\* token was acquired since.
C8_Witness ==
    /\ pc = "keep_open"
    /\ interval_reconnect < RetryFail
    /\ available > 0

\* C9: a poll of the waiter that finds the counter at zero keeps the driver
\* waiting; an attempt that starts with the counter at zero is a probe; and a
\* probe that is joined leaves the driver without active connection.
C9_DroppedInterestProbes ==
    /\ [][(WaiterPolled /\ available = 0) =>
            (pc' = "keep_open" /\ label_being_printed' = {})]_vars
    /\ [][(StartsConnect /\ available = 0) =>
            label_being_printed' = {ConnectTask(FALSE)}]_vars
    /\ [][(ConnectTask(FALSE) \in label_being_printed
            /\ ConnectTask(FALSE) \notin label_being_printed') =>
            active' = None]_vars

\* C9 witness: the waiter parked, was woken by a change of the counter, and
\* the counter is zero: a token was acquired and dropped during the wait.
C9_Witness ==
    /\ pc = "keep_open"
    /\ interval_reconnect < RetryFail
    /\ waiter_woken
    /\ available = 0

\* C10 as claimed: a connect that succeeds while a token is alive leaves the
\* driver with an active connection.
C10_KeptWhenInterestAtCompletion ==
    [][(ConnectSucceeds /\ available > 0) => active' # None]_vars

\* C10 as amended: keep_open is fixed when the attempt starts, true only if a
\* token was alive then; a connect that succeeds leaves the driver with an
\* active connection exactly when the attempt was started with keep_open.
C10_KeptWhenInterestAtStart ==
    /\ [][(StartsConnect /\ label_being_printed' = {ConnectTask(TRUE)}) =>
            available > 0]_vars
    /\ [][ConnectSucceeds =>
            (active' # None <=> ConnectTask(TRUE) \in label_being_printed)]_vars

\* C10 witness: a probe attempt is in flight and a token is alive.
C10_Witness ==
    /\ ConnectTask(FALSE) \in label_being_printed
    /\ available > 0

IdleTimerFires ==
    /\ pc = "select"
    /\ active # None
    /\ interval_disconnect = 0
    /\ interval_disconnect' = tick(IdleTimeout)

\* C12: the idle timer closes the active connection only when no interest
\* token is alive at the tick; with at least one token alive the active
\* connection is left open and unchanged.
C12_IdleClosesOnlyWithoutInterest ==
    [][IdleTimerFires =>
          /\ available >= 1 => active' = active
          /\ active' # active => available = 0 /\ active' = None]_vars

\* The idle timer has just fired with a token alive and the connection is
\* still there (the keepalive, reset together with it, is due again).
C12_Witness ==
    /\ pc = "select"
    /\ active # None
    /\ available >= 1
    /\ interval_disconnect = IdleTimeout
    /\ interval_keepalive = 0

\* The keepalive branch of the select runs.
KeepaliveRuns ==
    /\ pc = "select"
    /\ active # None
    /\ interval_keepalive = 0
    /\ interval_keepalive' = tick(StatusReportInterval)

\* Neither the driver nor a task holds a connection.
NothingHeld ==
    active = None /\ \A t \in label_being_printed : t.con = None

\* C13: when a keepalive verification ends with an I/O error or runs into
\* its timeout, the driver drops the active connection and resets the probe
\* timer; the state it is left in is the same for both kinds of failure; and
\* the connection is not used for a later job, because a connection that
\* appears when none is held is one that a connect task has just opened.
C13_VerifyFailureDropsConnection ==
    /\ [][KeepaliveRuns /\ last_verify' \in {"io_error", "timeout"} =>
            /\ active' = None
            /\ label_being_printed' = {}
            /\ interval_probe' = reset(DisinterestProbeInterval)
            /\ pc' = LoopHead({}, None, virtualization)
            /\ is_up' = is_up
            /\ <<message, available, connections, interval_reconnect,
                 interval_disconnect>>' =
               <<message, available, connections, interval_reconnect,
                 interval_disconnect>>]_vars
    /\ [][NothingHeld /\ ~NothingHeld' =>
            ConnectSucceeds /\ active' = connections']_vars

\* A verify has run into its timeout and the connection is gone.
C13_Witness ==
    /\ last_verify = "timeout"
    /\ connections >= 1
    /\ NothingHeld
    /\ interval_probe = DisinterestProbeInterval

\* C14: the connect task has an explicit time bound: when the device accepts
\* the connection but never answers, the task has ended with an error by
\* connect_timeout after its spawn, so no connect task is still running
\* after that time.  (The claim says the same of the print task, for which
\* the code names no bound at all.)
C14_ConnectTaskEndsWithinBound ==
    \A t \in label_being_printed :
       t.kind = "connect" /\ t.run.at \notin {"ok", "err"}
          => t.run.elapsed <= ConnectTimeout

\* A print or simulation task that was given the connection has returned
\* an error.
FailedWithConnection(t) ==
    t.kind # "connect" /\ t.con # None /\ t.run.at = "err"

\* C15: when a print or simulation task that claimed the connection fails,
\* the connection is not returned: once its result is joined nobody holds a
\* connection; a job of a connecting policy is dispatched only with an
\* active connection; and a connection appears, when none is held, only by
\* joining a connect task that got through its dial and its status round
\* trip.
C15_FailedTaskLosesConnection ==
    /\ [][\A t \in label_being_printed :
             FailedWithConnection(t) /\ t \notin label_being_printed'
                => NothingHeld']_vars
    /\ [][ReceivesJob /\ is_connnected(virtualization) => active # None]_vars
    /\ [][NothingHeld /\ active' # None =>
             \E t \in label_being_printed :
                /\ t.kind = "connect"
                /\ t.run.at = "ok"
                /\ t \notin label_being_printed']_vars

\* A simulated job of the DropJobs policy was dispatched with the connection
\* and has failed: the job is gone from the queue, no task is left, no
\* verify has ever run, and the connection is lost.
C15_Witness ==
    /\ virtualization = "DropJobs"
    /\ accepted >= 1
    /\ message = <<>>
    /\ holding = 0
    /\ label_being_printed = {}
    /\ active = None
    /\ connections >= 1
    /\ last_verify = "none"

\* wait_for_printed of the print task returns Ok in this step.
WaitForPrintedReturns ==
    /\ \E t \in label_being_printed : t.run.at = "wait"
    /\ \E t \in label_being_printed' : t.kind = "print" /\ t.run.at = "ok"

\* C17: wait_for_printed returns Ok only on a response in which the label
\* waiting flag (field 8 of the second status line) is clear and the labels
\* remaining counter (field 9) is zero; on any other response it asks again.
C17_ReturnsOnlyWhenPrinted ==
    [][WaitForPrintedReturns =>
          /\ status_line(device).st_waiting_in_peeloff = "0"
          /\ status_line(device).st_labels_in_batch = 0]_vars

\* printer.send of a print task writes the bytes of its job to the device.
JobBytesWritten ==
    /\ \E t \in label_being_printed : t.kind = "print" /\ t.run.at = "send"
    /\ device'.labels = device.labels + 1

\* C16: with the Physical policy the bytes of a job are written only when
\* the printer has finished the jobs before it: at that moment it has no
\* label left to print and none waiting to be taken.
C16_SendsOnlyToFinishedPrinter ==
    [][virtualization = "Physical" /\ JobBytesWritten =>
          device.labels = 0 /\ ~device.waiting]_vars

\* C18: with the ZplOnly policy the driver never starts a connection attempt
\* and never holds an active connection; it stays at its select, where
\* queued jobs are pulled, and every job runs as a simulation task without
\* a connection, rendered with a placeholder identification whose dpmm is
\* the configured override, or 8 when none is configured.
C18_ZplOnlyNeverConnects ==
    virtualization = "ZplOnly" =>
       /\ active = None
       /\ connections = 0
       /\ since_attempt = -1
       /\ pc = "select"
       /\ \A t \in label_being_printed :
             /\ t.kind = "simulation"
             /\ t.con = None
             /\ t.run.at # "render" =>
                   t.run.dpmm = IF dpmm # None THEN dpmm ELSE 8

\* A ZplOnly printer without a configured dpmm has pulled a job, rendered it
\* at 8 dpmm and sleeps out its wait time, with the next job queued.
C18_Witness ==
    /\ virtualization = "ZplOnly"
    /\ dpmm = None
    /\ message # <<>>
    /\ \E t \in label_being_printed :
          t.run.at = "sleep" /\ t.run.dpmm = 8 /\ t.run.elapsed >= 1

\* C19: with the DropJobs policy and wait time W a dispatched job is
\* reported complete no earlier than W after its dispatch; while it runs no
\* byte of the job is written to a socket (the device never gets a label to
\* print, and the task never stands at a send or a wait for the printer);
\* and on success the connection that was handed to the task is handed back
\* to the driver as the active connection.
C19_DropJobsWaitsAndReturns ==
    /\ [](virtualization = "DropJobs" =>
            /\ device.labels = 0
            /\ \A t \in label_being_printed :
                  /\ t.run.at \notin {"send", "wait"}
                  /\ t.kind # "connect" =>
                        /\ t.kind = "simulation"
                        /\ t.con # None
                        /\ t.run.at = "ok" => t.run.elapsed >= WaitTime)
    /\ [][virtualization = "DropJobs" =>
            \A t \in label_being_printed :
               /\ t.kind = "simulation"
               /\ t.run.at = "ok"
               /\ t \notin label_being_printed'
               => active' = t.con]_vars

\* The one job of a DropJobs printer was dispatched and is resolved, and
\* the driver holds the first connection again.
C19_Witness ==
    /\ virtualization = "DropJobs"
    /\ accepted = 1
    /\ holding = 0
    /\ message = <<>>
    /\ label_being_printed = {}
    /\ connections = 1
    /\ active = 1

\* C20: after the shutdown signal has been sent the driver loop eventually
\* exits, from every state of the driver (timers eventually fire).
C20_ShutdownExits == end ~> Gone

\* The shutdown arrived around a first connection attempt, and the driver
\* has left its loop with the attempt never joined.
C20_Witness ==
    /\ end
    /\ pc = "exited"
    /\ connections = 0
    /\ since_attempt = 0

\* C21: when the driver loop exits on a shutdown signal while a print or
\* simulation task is in flight, that task is not aborted: it is still
\* running after the exit.
C21_TaskSurvivesShutdown ==
    [][pc = "select" /\ end /\ pc' = "exited" =>
          \A t \in label_being_printed :
             t.kind # "connect" => t \in label_being_printed']_vars

\* A payload that fails validation: dimensions are given and differ from the
\* configured ones, or the content cannot be decoded.
FailsValidation(payload) ==
    \/ /\ payload.dimensions # Nothing
       /\ ~approx_cmp(payload.dimensions[1], ConfiguredDimensions)
    \/ ~payload.decodable

PushJobReplies == request # Nothing /\ request' = Nothing

\* C22: a job that fails validation is rejected with a reason, and the
\* rejection enqueues no task, takes no interest token and leaves the
\* driver and its connection as they were.
C22_RejectionHasNoEffect ==
    [][PushJobReplies /\ FailsValidation(request[1]) =>
          /\ last_reply' \in {DimensionMismatch, "decode error"}
          /\ UNCHANGED <<message, accepted, holding, available, waiter_woken,
                         kept, pc, active, label_being_printed, connections,
                         is_up, end, timers, since_attempt>>]_vars

C22_Witness ==
    /\ last_reply = DimensionMismatch
    /\ request = Nothing
    /\ active # None
    /\ holding = 0
    /\ message = <<>>

\* The i-th comma-separated token of a line, told by the places of the commas.
Commas(line) == {k \in 1..Len(line) : line[k] = ","}

Token(line, i) ==
    LET nth(n) == CHOOSE k \in Commas(line) :
                     Cardinality({j \in Commas(line) : j < k}) = n - 1
        from == IF i = 1 THEN 1 ELSE nth(i - 1) + 1
        to == IF i = Cardinality(Commas(line)) + 1
              THEN Len(line) ELSE nth(i) - 1
    IN SubSeq(line, from, to)

\* The token parses into the slot's type: text is any UTF-8, a boolean is the
\* number 0 or 1, an integer a number of the type's range.
Parses(type, token) ==
    CASE type = "Ignore" -> FALSE
      [] type = "String" -> from_utf8(token)
      [] type = "bool" -> parse(token, "u8") \in {Some(<<"0">>), Some(<<"1">>)}
      [] OTHER -> parse(token, type) # Nothing

Parsed(type, token) ==
    CASE type = "String" -> token
      [] type = "bool" -> parse(token, "u8") = Some(<<"1">>)
      [] OTHER -> parse(token, type)[1]

\* Slot i holds its token's value if there is an i-th token and it parses,
\* and the default of its type otherwise.
SlotFilledByToken(i) ==
    LET type == Slots(line_nr)[i] IN
    filled[1][i] =
        IF /\ i <= Cardinality(Commas(response)) + 1
           /\ Parses(type, Token(response, i))
        THEN Parsed(type, Token(response, i))
        ELSE Default(type)

\* The decoder gives every line a result: one value for each slot.
Decodable ==
    Len(split_line(response, default(line_nr), Slots(line_nr)))
        = Len(Slots(line_nr))

\* C28 as stated: decoding never fails, and on every response line each slot
\* is filled by the token of its place when that token parses and is left at
\* the default otherwise.
C28_EveryLineFilledByToken ==
    /\ Decodable
    /\ filled # Nothing =>
          \A i \in 1..Len(Slots(line_nr)) : SlotFilledByToken(i)

\* C28: decoding never fails; on a response line that is UTF-8 text each slot
\* is filled by the token of its place when that token parses and is left at
\* the default otherwise, surplus tokens are ignored; a line that is not
\* UTF-8 text leaves every slot at its default.
C28_TextLineFilledByToken ==
    /\ Decodable
    /\ filled # Nothing =>
          IF from_utf8(response)
          THEN \A i \in 1..Len(Slots(line_nr)) : SlotFilledByToken(i)
          ELSE filled[1] = default(line_nr)

C28_Witness ==
    /\ line_nr = 2
    /\ response = joined(<<<<"2", "5", "6">>, <<"-", "1">>, <<"0", "1">>>>)
    /\ filled # Nothing
    /\ filled[1][1] = <<"0">>
    /\ filled[1][3] = TRUE
    /\ filled[1][4] = FALSE

\* A call of line_with returns in this step, and what it returns.
LineReturned == Len(returned') = Len(returned) + 1

Line == returned'[Len(returned')]

\* The bytes the returning call has: those in buf and those it reads now.
AtHand == buf \o SubSeq(rx, 1, Len(rx) - Len(rx'))

\* p is what is left of the bytes behind their first start byte, or all of
\* them if there is none.
IsPayloadOf(p, bytes) ==
    \/ /\ \A i \in 1..Len(bytes) : bytes[i] # STX
       /\ p = bytes
    \/ \E j \in 1..Len(bytes) :
          /\ bytes[j] = STX
          /\ \A i \in 1..(j - 1) : bytes[i] # STX
          /\ p = SubSeq(bytes, j + 1, Len(bytes))

\* C25: a call that returns a line returns one frame: the bytes at hand up to
\* the first end byte; the payload is the frame without the end byte and
\* without everything up to and with its first start byte; what follows the
\* end byte stays in buf.
C25_ReturnsOneFrame ==
    [][LineReturned /\ Line.ok =>
          \E k \in 1..Len(AtHand) :
             /\ AtHand[k] = ETX
             /\ \A i \in 1..(k - 1) : AtHand[i] # ETX
             /\ IsPayloadOf(Line.string, SubSeq(AtHand, 1, k - 1))
             /\ buf' = SubSeq(AtHand, k + 1, Len(AtHand))]_vars

C25_Witness ==
    /\ Len(returned) = 1
    /\ returned[1].ok
    /\ returned[1].start = <<"b", STX>>
    /\ returned[1].string = <<"a">>
    /\ buf = <<"b">>

\* The frames of a stream, told by the places of its end bytes.
Ends(bytes) == {k \in 1..Len(bytes) : bytes[k] = ETX}

End_nr(bytes, n) ==
    IF n = 0 THEN 0
    ELSE CHOOSE k \in Ends(bytes) :
            Cardinality({j \in Ends(bytes) : j < k}) = n - 1

Frame(bytes, n) ==
    SubSeq(bytes, End_nr(bytes, n - 1) + 1, End_nr(bytes, n) - 1)

\* The bytes of the lines returned, as they were on the socket.
RECURSIVE Raw(_)
Raw(lines) ==
    IF lines = <<>> THEN <<>>
    ELSE Head(lines).start \o Head(lines).string \o <<ETX>> \o Raw(Tail(lines))

Lines == SelectSeq(returned, LAMBDA line : line.ok)

\* C26: whatever the reads return at a time, the lines returned are the
\* payloads of the frames of the stream in their order, and the bytes
\* returned, in buf and not read yet are the stream: none lost, none twice.
\* When the stream is read to its end, every frame has been returned.
C26_ChunkingDoesNotMatter ==
    /\ Len(Lines) <= Cardinality(Ends(stream))
    /\ \A n \in 1..Len(Lines) :
          IsPayloadOf(Lines[n].string, Frame(stream, n))
    /\ Raw(Lines) \o buf \o rx = stream
    /\ Len(Lines) < Len(returned) => Len(Lines) = Cardinality(Ends(stream))

C26_Witness ==
    /\ stream = <<"b", ETX, STX, "a", ETX>>
    /\ Len(returned) = 1
    /\ reading
    /\ buf = <<STX, "a">>
    /\ rx = <<ETX>>

\* C27: when a read returns zero bytes, the call returns the error and no
\* line, with whatever part of a frame is in buf; a call returns a line only
\* with an end byte at hand.
C27_ClosedStreamIsError ==
    [][/\ reading /\ rx = <<>> /\ returned' # returned =>
             returned' = Append(returned, BrokenPipe) /\ buf' = buf
       /\ LineReturned /\ Line.ok => Ends(AtHand) # {}]_vars

C27_Witness ==
    /\ Len(returned) = 2
    /\ returned[1].ok
    /\ returned[2] = BrokenPipe
    /\ buf = <<STX, "a">>

\* The response lines the claim gives a command.
LinesOf(command) ==
    IF command.kind = "RequestHostIdentification" THEN 1
    ELSE IF command.kind = "RequestHostStatus" THEN 3
    ELSE IF command.kind = "RequestHostRamStatus" THEN 1
    ELSE IF command.kind = "Raw" THEN command.value
    ELSE 0

\* C29: expected_response_lines of a sequence is the sum, over its commands,
\* of 1 for the identification query, 3 for the status query, 1 for the RAM
\* query, the declared count of a raw command and 0 for any other command;
\* it is 5 for the sequence of the three queries.
C29_ExpectedResponseLines ==
    response_lines # Nothing =>
       LET sum[i \in 0..Len(commands)] ==
              IF i = 0 THEN 0 ELSE sum[i - 1] + LinesOf(commands[i])
       IN /\ response_lines[1] = sum[Len(commands)]
          /\ commands = Discovery => response_lines[1] = 5

C29_Witness ==
    /\ commands = Discovery
    /\ response_lines = Some(5)

\* The text the claim gives a command: the digits of a width are at least
\* 3 and those of a length at least 4, with zeros in front and only as many
\* as that takes.
IsNumber(digits, n, least) ==
    LET value[i \in 0..Len(digits)] ==
           IF i = 0 THEN 0
           ELSE 10 * value[i - 1] + DigitValue[digits[i]]
    IN /\ Len(digits) >= least
       /\ \A i \in 1..Len(digits) : digits[i] \in DOMAIN DigitValue
       /\ value[Len(digits)] = n
       /\ Len(digits) > least => digits[1] # "0"

IsTextOf(chars, command) ==
    CASE command.kind = "Raw" -> chars = command.command
      [] command.kind = "SetPrintWidth" ->
            /\ SubSeq(chars, 1, 3) = <<"^", "P", "W">>
            /\ IsNumber(SubSeq(chars, 4, Len(chars)), command.value, 3)
      [] command.kind = "SetLabelLength" ->
            /\ SubSeq(chars, 1, 3) = <<"^", "L", "L">>
            /\ IsNumber(SubSeq(chars, 4, Len(chars)), command.value, 4)
      [] OTHER -> chars = String_from_ZplCommand(command)

Setup ==
    <<Command("SetPrintWidth", <<>>, 684),
      Command("SetLabelLength", <<>>, 384)>>

\* C30: the encoding of a sequence is the texts of its commands in their
\* order with one newline between two of them and none at the end; a raw
\* command's text is its literal, a width has 3 digits or more and a length
\* 4 or more, filled with zeros; widths 684 and length 384 give
\* "^PW684\n^LL0384".
C30_EncodedJoinedByNewline ==
    encoded # Nothing =>
       LET chars == encoded[1]
           n == Len(commands)
           \* where the text of command i ends
           end_of[i \in 0..n] ==
              IF i = 0 THEN -1
              ELSE end_of[i - 1] + 1
                      + Len(String_from_ZplCommand(commands[i]))
       IN /\ Len(chars) = IF n = 0 THEN 0 ELSE end_of[n]
          /\ \A i \in 1..n :
                /\ IsTextOf(SubSeq(chars, end_of[i - 1] + 2, end_of[i]),
                            commands[i])
                /\ i < n => chars[end_of[i] + 1] = "\n"
          /\ commands = Setup =>
                chars = <<"^", "P", "W", "6", "8", "4", "\n",
                          "^", "L", "L", "0", "3", "8", "4">>

C30_Witness ==
    /\ commands = Setup
    /\ encoded # Nothing
    /\ Len(encoded[1]) = 14
    /\ encoded[1][7] = "\n"

\* A query is written in this step; the call ends well in this step with
\* the lines it has read, the one read in this step last.
QueryWritten == Len(tx') = Len(tx) + 1

CallSucceeds == query # Nothing /\ query' = Nothing /\ io_result' = "ok"

CallFails == query # Nothing /\ query' = Nothing /\ io_result' = "err"

LinesRead ==
    query[1].lines \o SubSeq(arriving, 1, Len(arriving) - Len(arriving'))

\* C23: the k-th query a call writes is the identification, the status and
\* the RAM query for k = 1, 2, 3, and it is written only when the 0, 1 and 4
\* lines expected for the queries before it have been read; the five lines
\* go to identification, status strings 1 to 3 and RAM status in the order
\* they were read, and they were read in the order they arrived.
C23_OneQueryAtATime ==
    [][/\ QueryWritten =>
             LET k == query[1].cmd IN
             /\ k = 1 => /\ tx'[Len(tx')] = <<"~", "H", "I">>
                         /\ Len(query[1].lines) >= 0
             /\ k = 2 => /\ tx'[Len(tx')] = <<"~", "H", "S">>
                         /\ Len(query[1].lines) >= 1
             /\ k = 3 => /\ tx'[Len(tx')] = <<"~", "H", "M">>
                         /\ Len(query[1].lines) >= 1 + 3
             /\ query' # Nothing /\ ~query'[1].written => query'[1].cmd = k + 1
       /\ query # Nothing /\ query' # Nothing
          /\ Len(query'[1].lines) > Len(query[1].lines) =>
             query'[1].lines = Append(query[1].lines, Head(arriving))
       /\ CallSucceeds =>
             /\ Len(LinesRead) = 1 + 3 + 1
             /\ \A nr \in 0..4 :
                   status'[1][nr + 1] =
                      split_line(LinesRead[nr + 1], default(nr),
                                 Slots(nr))]_vars

C23_Witness ==
    /\ Len(tx) = 3
    /\ answered = 3
    /\ query = Nothing
    /\ io_result = "ok"
    /\ status # Nothing
    /\ status[1][1] = <<<<"1">>, <<"1">>, <<"1">>, <<"1">>>>
    /\ status[1][4] = <<<<"1">>, FALSE>>

\* C24: a call that fails leaves the stored status as it was, and so does
\* every step of a call but the last of one that succeeds; a call that
\* succeeds stores what the five lines it read give from the defaults, so a
\* field the new lines do not fill is at its default, whatever it was.
C24_AllOrNothing ==
    [][/\ CallFails => status' = status
       /\ status' # status => CallSucceeds
       /\ CallSucceeds =>
             \A nr \in 0..4 :
                status'[1][nr + 1] =
                   split_line(LinesRead[nr + 1], default(nr), Slots(nr))]_vars

C24_Witness ==
    /\ calls = 2
    /\ io_result = "err"
    /\ query = Nothing
    /\ Len(tx) > 3
    /\ status # Nothing
    /\ status[1][5] = <<<<"1">>, <<"0">>, <<"0">>>>

\* The bit of the pixel in column x and row y of the packed bytes: the rows
\* are whole bytes, the leftmost pixel of a group is the highest bit.
BitOf(bytes, img, x, y) ==
    (bytes[y * ((img.width + 7) \div 8) + x \div 8 + 1]
        \div 2 ^ (7 - (x % 8))) % 2

\* C31: for every image of width w and height h, 0x0 among them, bit_encode
\* returns ceil(w/8) * h bytes, the bits beyond the last pixel of each row
\* padding the row's last byte, and that many bytes are declared as
\* total_field_count = bytes_per_row * height by the SerializedImage built
\* from the same image.
C31_LengthIsRowsOfWholeBytes ==
    bits # Nothing =>
        LET w == image.width
            h == image.height
            bytes == bits[1].bytes
        IN  /\ ~bits[1].panic
            /\ Len(bytes) = ((w + 7) \div 8) * h
            /\ \A y \in 0..(h - 1) : \A x \in w..(8 * ((w + 7) \div 8) - 1) :
                  BitOf(bytes, image, x, y) = 0
            /\ serialized # Nothing =>
                  /\ ~serialized[1].panic
                  /\ serialized[1].total_field_count = Len(bytes)
                  /\ serialized[1].total_field_count
                        = serialized[1].bytes_per_row * h

\* C32: bit_encode sets the bit of a pixel exactly when its luma is at least
\* 128, the leftmost pixel of each group of eight in the most significant
\* bit.
C32_BitSetFromLuma128 ==
    bits # Nothing /\ ~bits[1].panic =>
        \A y \in 0..(image.height - 1) : \A x \in 0..(image.width - 1) :
            BitOf(bits[1].bytes, image, x, y) = 1
                <=> image.data[y * image.width + x + 1] >= 128

\* A connection attempt started by the probe timer.
Probe(t) == t.kind = "connect" /\ ~t.keep_open

\* C33: while no interest token is alive a connection attempt is started
\* only by the branch of the probe timer, which is due and is rescheduled,
\* and the attempt is a probe; no step of a probe changes the interest
\* counter; and when a probe is joined the driver has no active connection
\* and nothing else holds the connection the probe opened.
C33_ProbeOnlyWithoutInterest ==
    /\ [][(StartsConnect /\ ~has_strong_interest(available)) =>
            /\ interval_probe = 0
            /\ interval_probe' = DisinterestProbeInterval
            /\ label_being_printed' # {}
            /\ \A t \in label_being_printed' : Probe(t)]_vars
    /\ [][(label_being_printed' # label_being_printed
            /\ \E t \in label_being_printed : Probe(t)) =>
            available' = available]_vars
    /\ [][(pc = "select" /\ label_being_printed' = {}
            /\ \E t \in label_being_printed : Probe(t)) =>
            (active' = None /\ pc' \in {"reconnect", "exited"})]_vars

\* C33 witness: no job was ever submitted, so every attempt so far was a
\* probe; one of them got its connection and its status, was joined, and
\* the driver is without connection again.
C33_Witness ==
    /\ accepted = 0
    /\ holding = 0
    /\ connections > 0
    /\ label_being_printed = {}
    /\ active = None
    /\ pc = "reconnect"

\* join_next hands a connection back to the driver: the task that was in
\* flight is gone and the driver has an active connection.
HandsBack ==
    /\ pc = "select"
    /\ label_being_printed # {}
    /\ label_being_printed' = {}
    /\ active' # None

\* The driver gives up its active connection without handing it to a job:
\* a keepalive verification failed or the idle timer closed it.
GivesUp ==
    /\ pc = "select"
    /\ active # None
    /\ active' = None
    /\ label_being_printed' = {}
    /\ ~Gone'

\* C34: when a connect task or a job task hands a connection back, the
\* keepalive timer and the idle timer are both a full interval from their
\* next tick; the timers come closer to their tick only as time passes, one
\* unit at a time; and a verification or an idle close takes its timer's
\* tick, so neither happens less than a full interval after the hand-back.
C34_HandBackResetsTimers ==
    /\ [][HandsBack =>
            /\ interval_keepalive' = StatusReportInterval
            /\ interval_disconnect' = IdleTimeout]_vars
    /\ [][(interval_keepalive' < interval_keepalive
            \/ interval_disconnect' < interval_disconnect) =>
            /\ interval_keepalive' = Elapse(interval_keepalive)
            /\ interval_disconnect' = Elapse(interval_disconnect)
            /\ active' = active]_vars
    /\ [][last_verify' # last_verify =>
            (interval_keepalive = 0
             /\ interval_keepalive' = StatusReportInterval)]_vars
    /\ [][GivesUp =>
            \/ interval_keepalive = 0
                  /\ interval_keepalive' = StatusReportInterval
            \/ interval_disconnect = 0
                  /\ interval_disconnect' = IdleTimeout]_vars

\* C34 witness: a job task has just handed its connection back and no time
\* has passed since: both timers are a full interval from their tick.
C34_Witness ==
    /\ accepted > 0
    /\ message = <<>>
    /\ label_being_printed = {}
    /\ active # None
    /\ available = 0
    /\ pc = "select"
    /\ interval_keepalive = StatusReportInterval
    /\ interval_disconnect = IdleTimeout

\* C35: a connection has one owner: while a task is in flight the driver's
\* active slot is empty; a connection a task holds is held by no other task
\* and is not the driver's; and a keepalive verification, a close on
\* verification failure or an idle close happens only with no task in
\* flight.
C35_OneOwner ==
    /\ [](label_being_printed # {} => active = None)
    /\ [](\A t \in label_being_printed : t.con # None =>
            /\ active # t.con
            /\ \A u \in label_being_printed : u.con = t.con => u = t)
    /\ [][(last_verify' # last_verify \/ GivesUp) =>
            label_being_printed = {}]_vars

\* C35 witness: a job task holds the connection, the keepalive and the idle
\* timer are both due, and the driver's slot is empty.
C35_Witness ==
    /\ \E t \in label_being_printed : t.kind # "connect" /\ t.con # None
    /\ interval_keepalive = 0
    /\ interval_disconnect = 0
    /\ active = None
    /\ pc = "select"

\* C36: jobs are numbered in the order send_job accepts them.  The queue
\* holds the jobs accepted last, oldest first; the job the driver pulls is
\* the head of the queue and is the one it starts; so a job in flight is
\* older than every job still queued, and jobs start in the order they were
\* accepted.
C36_DispatchedInOrder ==
    /\ [](\A i \in 1..Len(message) :
            message[i] = accepted - Len(message) + i)
    /\ [](\A t \in label_being_printed : t.kind # "connect" =>
            \A i \in 1..Len(message) : t.job < message[i])
    /\ [][(ReceivesJob /\ ~Gone') =>
            /\ message' = Tail(message)
            /\ \E t \in label_being_printed' :
                  t.kind # "connect" /\ t.job = Head(message)]_vars

\* C36 witness: two jobs were accepted while the driver was connecting; the
\* first of them is in flight and the second waits in the queue.
C36_Witness ==
    /\ \E t \in label_being_printed : t.kind # "connect" /\ t.job = 1
    /\ message = <<2>>

\* join_next takes a job task out of the JoinSet, whatever its result.
JobTaskJoined ==
    /\ pc = "select"
    /\ \E t \in label_being_printed : t.kind # "connect"
    /\ label_being_printed' = {}
    /\ ~Gone'

\* C37: a job is started at most once.  The queue grows only by a job that
\* send_job has just accepted, under a new number; no job is queued twice
\* or queued while it is in flight; the job the driver starts is the one
\* after those it pulled before; and the step that joins a job task,
\* failed or not, leaves the queue as it is and starts nothing.
C37_StartedAtMostOnce ==
    /\ [][Len(message') > Len(message) =>
            /\ accepted' = accepted + 1
            /\ message' = Append(message, accepted')]_vars
    /\ [](\A i, j \in 1..Len(message) : message[i] = message[j] => i = j)
    /\ [](\A t \in label_being_printed : t.kind # "connect" =>
            \A i \in 1..Len(message) : message[i] # t.job)
    /\ [][(ReceivesJob /\ ~Gone') =>
            \A t \in label_being_printed' :
               t.job = accepted - Len(message) + 1]_vars
    /\ [][JobTaskJoined =>
            (message' = message /\ accepted' = accepted)]_vars

\* C37 witness: the print task of the first job has failed with the
\* connection it was given, and a second job waits in the queue.
C37_Witness ==
    /\ \E t \in label_being_printed :
          t.kind = "print" /\ t.job = 1 /\ t.run.at = "err"
    /\ message = <<2>>

\* Job j waits in the queue of the driver.
Queued(j) == \E i \in 1..Len(message) : message[i] = j

\* Job j has been pulled from the queue and handed to its task.
Started(j) == \E t \in label_being_printed : t.kind # "connect" /\ t.job = j

\* The driver has what it needs to take a job: a policy that never
\* connects, an active connection, or a connection out with a job task.
Connected ==
    \/ virtualization = "ZplOnly"
    \/ active # None
    \/ \E t \in label_being_printed : t.kind # "connect"

\* C38: if no shutdown is ever signalled and the driver gets its connection
\* again and again (or the policy is ZplOnly), every job accepted by
\* send_job is eventually pulled from the queue and started.
C38_AcceptedJobIsStarted ==
    ([]~end /\ []<>Connected) =>
        \A j \in 1..TaskJobs : Queued(j) ~> Started(j)

\* C39: the interest counter is at least the number of jobs waiting in the
\* queue in every reachable state, and a tick of the idle timer with a job
\* in the queue leaves the active connection as it is.
C39_QueuedJobsHoldInterest ==
    /\ [](available >= Len(message))
    /\ [](message # <<>> => has_strong_interest(available))
    /\ [][(IdleTimerFires /\ message # <<>>) =>
            (active' = active /\ active' # None)]_vars

\* C39 witness: the idle timer has just fired with a job in the queue, whose
\* token is the only one alive; the connection is still there and the
\* keepalive is due.
C39_Witness ==
    /\ pc = "select"
    /\ active # None
    /\ label_being_printed = {}
    /\ message # <<>>
    /\ available = Len(message)
    /\ interval_disconnect = IdleTimeout
    /\ interval_keepalive = 0

\* send_job returns its error to push_job.
SubmissionRejected == SendJobReturns /\ last_reply' = "failed to queue"

\* C40: a handler takes one token when it starts its submission; when
\* send_job rejects the task, the step gives that one token back and leaves
\* the queue as it is, so the counter is what it was without the
\* submission; and with no handler at work, no token held from outside and
\* an empty queue there is no interest left, whatever was rejected before.
C40_RejectionReleasesToken ==
    /\ [][holding' = holding + 1 => available' = available + 1]_vars
    /\ [][SubmissionRejected =>
            /\ available' = available - 1
            /\ message' = message
            /\ accepted' = accepted]_vars
    /\ [](holding = 0 /\ kept = 0 /\ message = <<>> =>
            ~has_strong_interest(available))

\* C40 witness: a submission was rejected by the full queue and the handler
\* has returned: the tokens alive are those of the queued jobs and of the
\* holder outside.
C40_Witness ==
    /\ Len(message) = BOUND
    /\ last_reply = "failed to queue"
    /\ holding = 0
    /\ available = BOUND + kept

====
